---------------------------- MODULE Spec2Model ----------------------------
(***************************************************************************)
(* A model of the financial statement automation pipeline:                 *)
(*   agents/validation_agent.py             ValidationAgent                *)
(*   agents/template_intelligence_agent.py  TemplateIntelligenceAgent      *)
(*   agents/audit_trail_agent.py            AuditTrailAgent                *)
(*   workflow.py                            FinancialWorkflow              *)
(*                                                                         *)
(* Text is a TLA+ string, read character by character with SubSeq.         *)
(* A money amount is a Python float in the code; here it is an exact       *)
(* fixed-point number counted in thousandths and held in two limbs         *)
(* [hi, lo] with value hi * Base + lo, so that both the balance tolerance  *)
(* (0.01) and the amount ceiling (999,999,999.99) are representable within *)
(* TLC's integers.                                                         *)
(***************************************************************************)
EXTENDS Integers, Sequences, FiniteSets, TLC

VARIABLES
    df,                 \* the extracted table handed to ValidationAgent
    records,            \* the value of a normalize_data call / the list under validation
    validation_result,  \* the value of a validate_records call
    template_type,      \* the value of a detect_statement_type call
    template_data,      \* the value of a map_data_to_template call
    normalize_raised,   \* TRUE when the normalize_data call raised instead of returning
    call,               \* the agent method applied last ("" before any call)
    agents,             \* FinancialWorkflow: which agents __init__ built (FALSE is None)
    run,                \* the activation of process_file: its position, locals and result
    audit,              \* the AuditTrailAgent's sessions and saved records
    shadow,             \* the same activation in a workflow whose audit_agent is None
    batch               \* the activation of batch_process: file_paths, the results so
                        \* far, and the activation of each file's call made alone

dataVars == <<df, records, validation_result, template_type, template_data,
             normalize_raised, call>>
pipeVars == <<agents, run, audit, shadow, batch>>
vars == <<dataVars, pipeVars>>

---------------------------------------------------------------------------
(* Text helpers (str methods used by the agents)                           *)

Char(s, i) == SubSeq(s, i, i)

\* keyword in s
Contains(s, kw) ==
    \E i \in 1..(Len(s) - Len(kw) + 1) : SubSeq(s, i, i + Len(kw) - 1) = kw

UpperChars == "ABCDEFGHIJKLMNOPQRSTUVWXYZ"
LowerChars == "abcdefghijklmnopqrstuvwxyz"
DigitChars == "0123456789"

IsIn(c, chars) == \E i \in 1..Len(chars) : Char(chars, i) = c

LowerChar(c) ==
    IF IsIn(c, UpperChars)
    THEN Char(LowerChars, CHOOSE i \in 1..Len(UpperChars) : Char(UpperChars, i) = c)
    ELSE c

RECURSIVE Lower(_)
\* str.lower()
Lower(s) == IF s = "" THEN "" ELSE LowerChar(Char(s, 1)) \o Lower(SubSeq(s, 2, Len(s)))

RECURSIVE LStrip(_)
LStrip(s) == IF s # "" /\ Char(s, 1) = " " THEN LStrip(SubSeq(s, 2, Len(s))) ELSE s

RECURSIVE RStrip(_)
RStrip(s) == IF s # "" /\ Char(s, Len(s)) = " " THEN RStrip(SubSeq(s, 1, Len(s) - 1)) ELSE s

\* str.strip()
Strip(s) == RStrip(LStrip(s))

RECURSIVE Filter(_, _)
\* the characters of s that are in chars, in order (re.sub of the complement class)
Filter(s, chars) ==
    IF s = "" THEN ""
    ELSE (IF IsIn(Char(s, 1), chars) THEN Char(s, 1) ELSE "") \o Filter(SubSeq(s, 2, Len(s)), chars)

RECURSIVE Remove(_, _)
\* str.replace(c, '') for each character c of chars
Remove(s, chars) ==
    IF s = "" THEN ""
    ELSE (IF IsIn(Char(s, 1), chars) THEN "" ELSE Char(s, 1)) \o Remove(SubSeq(s, 2, Len(s)), chars)

\* number of occurrences of the character c in s
Count(s, c) == Cardinality({i \in 1..Len(s) : Char(s, i) = c})

\* position of the first occurrence of c in s (c occurs in s)
IndexOf(s, c) == CHOOSE i \in 1..Len(s) : Char(s, i) = c /\ \A j \in 1..(i - 1) : Char(s, j) # c

---------------------------------------------------------------------------
(* Amounts                                                                 *)

Base == 1000 * 1000 * 1000      \* thousandths per unit of the high limb
Milli == 10 * 100               \* thousandths per currency unit

Amt(hi, lo) == [hi |-> hi, lo |-> lo]
Zero == Amt(0, 0)
\* a small amount given in thousandths, 0 <= m < Base
M(m) == Amt(0, m)

Neg(a) == IF a.lo = 0 THEN Amt(-a.hi, 0) ELSE Amt(-a.hi - 1, Base - a.lo)
Add(a, b) ==
    LET s == a.lo + b.lo
    IN  Amt(a.hi + b.hi + (IF s >= Base THEN 1 ELSE 0), s % Base)
Sub(a, b) == Add(a, Neg(b))
IsNeg(a) == a.hi < 0
Abs(a) == IF IsNeg(a) THEN Neg(a) ELSE a
Less(a, b) == a.hi < b.hi \/ (a.hi = b.hi /\ a.lo < b.lo)
Leq(a, b) == a = b \/ Less(a, b)


\* the value of a digit string read in base 10 ("" is 0)
RECURSIVE Num(_)
Num(s) ==
    IF s = "" THEN 0
    ELSE Num(SubSeq(s, 1, Len(s) - 1)) * 10
         + (CHOOSE d \in 0..9 : Char(DigitChars, d + 1) = Char(s, Len(s)))

\* the amount written with integer digits int and fraction digits frac
\* (fraction digits after the third are below the model's resolution)
ToAmount(int, frac) ==
    LET n  == Len(int)
        f3 == Num(SubSeq(frac \o "000", 1, 3))
    IN  Amt(Num(SubSeq(int, 1, n - 6)),
            Num(SubSeq(int, IF n > 6 THEN n - 5 ELSE 1, n)) * Milli + f3)

\* float(s) for s over the characters 0-9 . , ( ) - : [ok, v], ok = FALSE is ValueError
ParseFloat(s) ==
    LET minus == s # "" /\ Char(s, 1) = "-"
        body  == IF minus THEN SubSeq(s, 2, Len(s)) ELSE s
        ok    == /\ Filter(body, DigitChars \o ".") = body
                 /\ Count(body, ".") <= 1
                 /\ Filter(body, DigitChars) # ""
        dot   == IF Count(body, ".") = 1 THEN IndexOf(body, ".") ELSE Len(body) + 1
        mag   == ToAmount(SubSeq(body, 1, dot - 1), SubSeq(body, dot + 1, Len(body)))
    IN  IF ~ok THEN [ok |-> FALSE, v |-> Zero]
        ELSE [ok |-> TRUE, v |-> IF minus THEN Neg(mag) ELSE mag]

---------------------------------------------------------------------------
(* Table cells: a cell is missing (NaN/None) or holds text; a numeric cell *)
(* is held as the text str() gives it.                                     *)

NaN == [isna |-> TRUE, text |-> ""]
Txt(t) == [isna |-> FALSE, text |-> t]

\* a variant for comparison: a single comma always read as the decimal separator
CommaSeparators_DecimalComma(cleaned) ==
    IF Contains(cleaned, ",") /\ Contains(cleaned, ".")
    THEN LET dot  == IndexOf(cleaned, ".")
             p0   == SubSeq(cleaned, 1, dot - 1)
             p1   == SubSeq(cleaned, dot + 1, Len(cleaned))
         IN  IF Count(cleaned, ".") = 1 /\ Len(p1) <= 2
             THEN Remove(p0, ",") \o "." \o p1
             ELSE cleaned
    ELSE IF Contains(cleaned, ",")
    THEN LET com == IndexOf(cleaned, ",")
             c0  == SubSeq(cleaned, 1, com - 1)
             c1  == SubSeq(cleaned, com + 1, Len(cleaned))
         IN  IF Count(cleaned, ",") = 1
             THEN c0 \o "." \o c1
             ELSE Remove(cleaned, ",")
    ELSE cleaned

\* the comma handling of clean_amount_value
CommaSeparators(cleaned) ==
    IF Contains(cleaned, ",") /\ Contains(cleaned, ".")
    THEN LET dot  == IndexOf(cleaned, ".")
             p0   == SubSeq(cleaned, 1, dot - 1)
             p1   == SubSeq(cleaned, dot + 1, Len(cleaned))
         IN  IF Count(cleaned, ".") = 1 /\ Len(p1) <= 2
             THEN Remove(p0, ",") \o "." \o p1
             ELSE cleaned
    ELSE IF Contains(cleaned, ",")
    THEN LET com == IndexOf(cleaned, ",")
             c0  == SubSeq(cleaned, 1, com - 1)
             c1  == SubSeq(cleaned, com + 1, Len(cleaned))
         IN  IF Count(cleaned, ",") = 1 /\ Len(c1) <= 2
             THEN c0 \o "." \o c1
             ELSE Remove(cleaned, ",")
    ELSE cleaned

\* '(' in str_value and ')' in str_value
IsParenthesized(str_value) == Contains(str_value, "(") /\ Contains(str_value, ")")

\* float(cleaned) with the sign of the parentheses applied; ValueError gives 0.0
SignedAmount(parsed, is_negative) ==
    IF ~parsed.ok THEN Zero                     \* except (ValueError, TypeError)
    ELSE IF is_negative THEN Neg(parsed.v) ELSE parsed.v

\* amount = float(cleaned) if cleaned else 0.0 (and -0.0 == 0.0)
CleanedAmount(cleaned, is_negative) ==
    IF cleaned = "" THEN Zero ELSE SignedAmount(ParseFloat(cleaned), is_negative)

\* the try block of clean_amount_value for the stripped text str_value
CleanText(str_value) ==
    IF str_value = "" \/ Lower(str_value) \in {"nan", "null", "none"} THEN Zero
    ELSE CleanedAmount(
             CommaSeparators(IF IsParenthesized(str_value)
                             THEN Remove(Filter(str_value, DigitChars \o ".,()-"), "()")
                             ELSE Filter(str_value, DigitChars \o ".,()-")),
             IsParenthesized(str_value))

\* ValidationAgent.clean_amount_value for a scalar cell
clean_amount_value(value) ==
    IF value.isna \/ value.text = "" THEN Zero ELSE CleanText(Strip(value.text))

---------------------------------------------------------------------------
(* Account classification                                                  *)

\* config/settings.py ACCOUNT_CATEGORIES, in dict (insertion) order
ACCOUNT_CATEGORIES ==
    << [category |-> "assets", type |-> "Asset",
        keywords |-> <<"cash", "bank", "receivable", "inventory", "equipment", "building", "assets">>],
       [category |-> "liabilities", type |-> "Liability",
        keywords |-> <<"payable", "debt", "loan", "liability", "accrued">>],
       [category |-> "equity", type |-> "Equity",
        keywords |-> <<"equity", "capital", "retained", "earnings">>],
       [category |-> "revenue", type |-> "Revenue",
        keywords |-> <<"revenue", "income", "sales", "turnover">>],
       [category |-> "expenses", type |-> "Expense",
        keywords |-> <<"expense", "cost", "salary", "rent", "utilities">>] >>

\* any(keyword in account_lower for keyword in keywords) for the i-th category
HasKeyword(account_lower, i) ==
    \E k \in 1..Len(ACCOUNT_CATEGORIES[i].keywords) :
        Contains(account_lower, ACCOUNT_CATEGORIES[i].keywords[k])

\* a variant for comparison: the last category, in dict order, one of whose
\* keywords occurs
FirstCategory_Last(hits) ==
    IF hits = {} THEN <<"Unknown", "other">>
    ELSE LET last == CHOOSE i \in hits : \A j \in hits : i >= j
         IN  <<ACCOUNT_CATEGORIES[last].type, ACCOUNT_CATEGORIES[last].category>>

\* the first category, in dict order, one of whose keywords occurs
FirstCategory(hits) ==
    IF hits = {} THEN <<"Unknown", "other">>
    ELSE LET first == CHOOSE i \in hits : \A j \in hits : i <= j
         IN  <<ACCOUNT_CATEGORIES[first].type, ACCOUNT_CATEGORIES[first].category>>

\* ValidationAgent.categorize_account: <<account_type, category>>
categorize_account(account_name) ==
    IF account_name = "" THEN <<"Unknown", "Other">>
    ELSE FirstCategory({i \in 1..Len(ACCOUNT_CATEGORIES) :
                           HasKeyword(Strip(Lower(account_name)), i)})

---------------------------------------------------------------------------
(* Records                                                                 *)

None == <<>>            \* Optional[float] None; a present value v is <<v>>

\* dataclass FinancialRecord(account_name) with its defaults
FinancialRecord(account_name) ==
    [account_name |-> account_name, debit |-> Zero, credit |-> Zero, balance |-> Zero,
     account_type |-> "", category |-> "", description |-> "", original_amount |-> None]

---------------------------------------------------------------------------
(* ValidationAgent.normalize_column_names                                  *)
(* A table is [columns, rows]: the header texts and, per row, one cell per  *)
(* column.  Renaming may give two columns the same label, as df.rename does.*)

WordSpaceChars == LowerChars \o UpperChars \o DigitChars \o "_ "

\* a variant for comparison: the amount / value / total rule tried before the
\* debit, credit and balance rules
MapColumn_AmountFirst(col, claimed) ==
    LET col_clean == Filter(Strip(Lower(col)), WordSpaceChars)
    IN  IF Contains(col_clean, "account") /\ "account_name" \notin claimed
        THEN "account_name"
        ELSE IF /\ Contains(col_clean, "name")
                /\ "account_name" \notin claimed
                /\ ~Contains(col_clean, "account")
        THEN "account_name"
        ELSE IF /\ \E kw \in {"amount", "value", "total"} : Contains(col_clean, kw)
                /\ "amount" \notin claimed
        THEN "amount"
        ELSE IF Contains(col_clean, "debit") THEN "debit"
        ELSE IF Contains(col_clean, "credit") THEN "credit"
        ELSE IF Contains(col_clean, "balance") THEN "balance"
        ELSE IF Contains(col_clean, "type") THEN "type"
        ELSE IF Contains(col_clean, "description") THEN "description"
        ELSE ""

\* the elif chain for one header; claimed = column_mapping.values() so far;
\* "" when no rule applies (the header is left out of column_mapping)
MapColumn(col, claimed) ==
    LET col_clean == Filter(Strip(Lower(col)), WordSpaceChars)
    IN  IF Contains(col_clean, "account") /\ "account_name" \notin claimed
        THEN "account_name"
        ELSE IF /\ Contains(col_clean, "name")
                /\ "account_name" \notin claimed
                /\ ~Contains(col_clean, "account")
        THEN "account_name"
        ELSE IF Contains(col_clean, "debit") THEN "debit"
        ELSE IF Contains(col_clean, "credit") THEN "credit"
        ELSE IF Contains(col_clean, "balance") THEN "balance"
        ELSE IF /\ \E kw \in {"amount", "value", "total"} : Contains(col_clean, kw)
                /\ "amount" \notin claimed
        THEN "amount"
        ELSE IF Contains(col_clean, "type") THEN "type"
        ELSE IF Contains(col_clean, "description") THEN "description"
        ELSE ""

\* column_mapping after the loop over df.columns, as the list of targets
RECURSIVE ColumnMapping(_)
ColumnMapping(columns) ==
    IF columns = <<>> THEN <<>>
    ELSE LET prev    == ColumnMapping(SubSeq(columns, 1, Len(columns) - 1))
             claimed == {prev[i] : i \in 1..Len(prev)} \ {""}
         IN  Append(prev, MapColumn(columns[Len(columns)], claimed))

\* the labels of df.rename(columns=column_mapping)
normalize_column_names(columns) ==
    LET mapping == ColumnMapping(columns)
    IN  [i \in 1..Len(columns) |-> IF mapping[i] = "" THEN columns[i] ELSE mapping[i]]

---------------------------------------------------------------------------
(* ValidationAgent.normalize_data                                          *)

HasColumn(cols, c) == \E i \in 1..Len(cols) : cols[i] = c
\* row.get(c) is a Series, not a scalar, when the label c is not unique;
\* pd.isna / pd.notna of a Series in a boolean context raises ValueError
IsSeries(cols, c) == Cardinality({i \in 1..Len(cols) : cols[i] = c}) > 1
\* row.get(c) for a unique label
Get(cols, row, c) == row[CHOOSE i \in 1..Len(cols) : cols[i] = c]

\* the loop over ['account_name', 'account', 'name'] from candidate k on
RECURSIVE AccountName(_, _, _)
AccountName(cols, row, cands) ==
    IF cands = <<>> THEN [raised |-> FALSE, name |-> ""]
    ELSE IF ~HasColumn(cols, Head(cands)) THEN AccountName(cols, row, Tail(cands))
    ELSE IF IsSeries(cols, Head(cands)) THEN [raised |-> TRUE, name |-> ""]
    ELSE LET value == Get(cols, row, Head(cands))
         IN  IF ~value.isna /\ Strip(value.text) # ""
             THEN [raised |-> FALSE, name |-> Strip(value.text)]
             ELSE AccountName(cols, row, Tail(cands))

\* record.<c> = clean_amount_value(row.get(c)) if c is a column, else the default 0.0
AmountColumn(cols, row, c) ==
    IF HasColumn(cols, c) THEN clean_amount_value(Get(cols, row, c)) ELSE Zero

\* a variant for comparison: a missing type value is treated like any other
\* value that does not say credit, so the amount goes to debit whatever its sign
AssignAmount_MissingTypeIsDebit(cols, row, record, amount) ==
    IF HasColumn(cols, "type")
    THEN IF /\ ~Get(cols, row, "type").isna
            /\ \/ Contains(Lower(Get(cols, row, "type").text), "credit")
               \/ Contains(Lower(Get(cols, row, "type").text), "cr")
         THEN [record EXCEPT !.original_amount = <<amount>>, !.credit = Abs(amount)]
         ELSE [record EXCEPT !.original_amount = <<amount>>, !.debit = Abs(amount)]
    ELSE IF ~IsNeg(amount)
         THEN [record EXCEPT !.original_amount = <<amount>>, !.debit = amount]
         ELSE [record EXCEPT !.original_amount = <<amount>>, !.credit = Abs(amount)]

\* "Determine if debit or credit based on type column or amount sign"
AssignAmount(cols, row, record, amount) ==
    IF HasColumn(cols, "type") /\ ~Get(cols, row, "type").isna
    THEN IF \/ Contains(Lower(Get(cols, row, "type").text), "credit")
            \/ Contains(Lower(Get(cols, row, "type").text), "cr")
         THEN [record EXCEPT !.original_amount = <<amount>>, !.credit = Abs(amount)]
         ELSE [record EXCEPT !.original_amount = <<amount>>, !.debit = Abs(amount)]
    ELSE IF ~IsNeg(amount)
         THEN [record EXCEPT !.original_amount = <<amount>>, !.debit = amount]
         ELSE [record EXCEPT !.original_amount = <<amount>>, !.credit = Abs(amount)]

\* the condition of "Handle single amount column"
SingleApplies(cols, record) ==
    record.debit = Zero /\ record.credit = Zero /\ HasColumn(cols, "amount")

\* "Handle single amount column": the record after the block
SingleAmount(cols, row, record) ==
    IF SingleApplies(cols, record)
    THEN AssignAmount(cols, row, record, clean_amount_value(Get(cols, row, "amount")))
    ELSE record

\* a variant for comparison: a balance that goes to debit as its absolute
\* value whatever its sign
BalanceOnly_Unsigned(record) ==
    IF record.debit = Zero /\ record.credit = Zero /\ record.balance # Zero
    THEN [record EXCEPT !.debit = Abs(record.balance)]
    ELSE record

\* "If only balance is provided, convert based on sign"
BalanceOnly(record) ==
    IF record.debit = Zero /\ record.credit = Zero /\ record.balance # Zero
    THEN IF ~IsNeg(record.balance) THEN [record EXCEPT !.debit = record.balance]
         ELSE [record EXCEPT !.credit = Abs(record.balance)]
    ELSE record

\* record.account_type, record.category = self.categorize_account(record.account_name)
Categorized(record, cat) == [record EXCEPT !.account_type = cat[1], !.category = cat[2]]

\* the record after the account name, the description and the dedicated
\* debit / credit / balance columns were read (no label is duplicated)
DedicatedColumns(cols, row) ==
    [FinancialRecord(AccountName(cols, row, <<"account_name", "account", "name">>).name)
        EXCEPT !.description = IF HasColumn(cols, "description")
                                  /\ ~Get(cols, row, "description").isna
                               THEN Strip(Get(cols, row, "description").text) ELSE "",
               !.debit = AmountColumn(cols, row, "debit"),
               !.credit = AmountColumn(cols, row, "credit"),
               !.balance = AmountColumn(cols, row, "balance")]

\* the iteration raises ValueError: some label it reads names two columns
RowRaises(cols, row) ==
    \/ AccountName(cols, row, <<"account_name", "account", "name">>).raised
    \/ \E c \in {"description", "debit", "credit", "balance"} : IsSeries(cols, c)
    \/ /\ IsSeries(cols, "amount") \/ IsSeries(cols, "type")
       /\ SingleApplies(cols, DedicatedColumns(cols, row))

\* the record one iteration appends
RowRecord(record) == Categorized(record, categorize_account(record.account_name))

\* one iteration of the loop over df_normalized.iterrows(): [raised, record]
NormalizeRow(cols, row) ==
    IF RowRaises(cols, row) THEN [raised |-> TRUE, record |-> FinancialRecord("")]
    ELSE [raised |-> FALSE,
          record |-> RowRecord(BalanceOnly(SingleAmount(cols, row, DedicatedColumns(cols, row))))]

\* the list after the loop, or raised = TRUE when an iteration raised
Collected(outs) ==
    IF \E i \in 1..Len(outs) : outs[i].raised
    THEN [raised |-> TRUE, records |-> <<>>]
    ELSE [raised |-> FALSE, records |-> [i \in 1..Len(outs) |-> outs[i].record]]

NormalizeRows(cols, rows) == [i \in 1..Len(rows) |-> NormalizeRow(cols, rows[i])]

\* normalize_data(df): [raised, records]
normalize_data(table) ==
    Collected(NormalizeRows(normalize_column_names(table.columns), table.rows))

---------------------------------------------------------------------------
(* ValidationAgent.validate_records                                        *)

Tolerance == M(Milli \div 100)                      \* VALIDATION_TOLERANCE = 0.01
MaxAmount == Amt(999, 999990000)                    \* 'max_amount': 999999999.99
MinAccountNameLength == 2                           \* 'min_account_name_length'

RECURSIVE TotalDebits(_)
TotalDebits(rs) ==
    IF rs = <<>> THEN Zero
    ELSE Add(TotalDebits(SubSeq(rs, 1, Len(rs) - 1)), rs[Len(rs)].debit)

RECURSIVE TotalCredits(_)
TotalCredits(rs) ==
    IF rs = <<>> THEN Zero
    ELSE Add(TotalCredits(SubSeq(rs, 1, Len(rs) - 1)), rs[Len(rs)].credit)

\* the warnings appended inside the loop, one per record above the ceiling
RECURSIVE LargeAmountWarnings(_)
LargeAmountWarnings(rs) ==
    IF rs = <<>> THEN <<>>
    ELSE LET r == rs[Len(rs)]
         IN  LargeAmountWarnings(SubSeq(rs, 1, Len(rs) - 1))
             \o (IF Less(MaxAmount, r.debit) \/ Less(MaxAmount, r.credit)
                 THEN <<"large_amount">> ELSE <<>>)

\* a variant for comparison: the difference taken without abs
BalanceDifference_Signed(total_debits, total_credits) == Sub(total_debits, total_credits)

\* balance_difference = abs(total_debits - total_credits)
BalanceDifference(total_debits, total_credits) == Abs(Sub(total_debits, total_credits))

\* a variant for comparison: the not-balanced check with >= in place of >
ValidationErrors_AtTolerance(balance_difference) ==
    IF Leq(Tolerance, balance_difference) THEN <<"not_balanced">> ELSE <<>>

\* the error list: the not-balanced check is the only append to errors
ValidationErrors(balance_difference) ==
    IF Less(Tolerance, balance_difference) THEN <<"not_balanced">> ELSE <<>>

validate_records(rs) ==
    LET total_debits   == TotalDebits(rs)
        total_credits  == TotalCredits(rs)
        empty_accounts == Cardinality({i \in 1..Len(rs) :
                              rs[i].account_name = ""
                              \/ Len(rs[i].account_name) < MinAccountNameLength})
        zero_amounts   == Cardinality({i \in 1..Len(rs) :
                              rs[i].debit = Zero /\ rs[i].credit = Zero /\ rs[i].balance = Zero})
        balance_difference == BalanceDifference(total_debits, total_credits)
        errors         == ValidationErrors(balance_difference)
        named          == {i \in 1..Len(rs) : rs[i].account_name # ""}
        distinct       == {rs[i].account_name : i \in named}
        warnings       == LargeAmountWarnings(rs)
                          \o (IF empty_accounts > 0 THEN <<"empty_accounts">> ELSE <<>>)
                          \o (IF zero_amounts > 0 THEN <<"zero_amounts">> ELSE <<>>)
                          \o (IF Cardinality(named) # Cardinality(distinct)
                              THEN <<"duplicates">> ELSE <<>>)
    IN  [is_valid |-> Len(errors) = 0,
         errors |-> errors,
         warnings |-> warnings,
         total_debits |-> total_debits,
         total_credits |-> total_credits,
         balance_difference |-> balance_difference,
         records_processed |-> Len(rs),
         empty_accounts |-> empty_accounts,
         zero_amounts |-> zero_amounts]

---------------------------------------------------------------------------
(* TemplateIntelligenceAgent.detect_statement_type                         *)

CountTypes(rs, types) == Cardinality({i \in 1..Len(rs) : rs[i].account_type \in types})

\* a variant for comparison: the 60% threshold taken strictly
AtLeastSixTenths_Strict(n, total) == 5 * n > 3 * total

\* n >= len(records) * 0.6 and n >= len(records) * 0.5 for integers n: the
\* float products round to the exact value whenever it is an integer
AtLeastSixTenths(n, total) == 5 * n >= 3 * total
AtLeastHalf(n, total) == 2 * n >= total

\* a variant for comparison: no guard for an empty list, and a tie between the
\* two indicator counts goes to the balance sheet
detect_statement_type_TiesToBalanceSheet(rs) ==
    LET balance_sheet_indicators    == CountTypes(rs, {"Asset", "Liability", "Equity"})
        income_statement_indicators == CountTypes(rs, {"Revenue", "Expense"})
    IN  IF /\ balance_sheet_indicators >= income_statement_indicators
           /\ AtLeastSixTenths(balance_sheet_indicators, Len(rs))
        THEN "balance_sheet.md"
        ELSE IF /\ income_statement_indicators > balance_sheet_indicators
                /\ AtLeastHalf(income_statement_indicators, Len(rs))
        THEN "profit_loss.md"
        ELSE "trial_balance.md"

detect_statement_type(rs) ==
    IF rs = <<>> THEN "trial_balance.md"
    ELSE
    LET balance_sheet_indicators    == CountTypes(rs, {"Asset", "Liability", "Equity"})
        income_statement_indicators == CountTypes(rs, {"Revenue", "Expense"})
    IN  IF /\ balance_sheet_indicators > income_statement_indicators
           /\ AtLeastSixTenths(balance_sheet_indicators, Len(rs))
        THEN "balance_sheet.md"
        ELSE IF /\ income_statement_indicators > balance_sheet_indicators
                /\ AtLeastHalf(income_statement_indicators, Len(rs))
        THEN "profit_loss.md"
        ELSE "trial_balance.md"

\* the templates create_default_templates leaves in the templates folder
DefaultTemplates == {"balance_sheet.md", "profit_loss.md", "trial_balance.md", "cash_flow.md"}

\* TemplateIntelligenceAgent.generate_statement: [success, errors]
generate_statement(rs, template) ==
    IF rs = <<>> THEN [success |-> FALSE, errors |-> <<"No records provided for statement generation">>]
    ELSE IF template \notin DefaultTemplates
    THEN [success |-> FALSE, errors |-> <<"Template not found">>]
    ELSE [success |-> TRUE, errors |-> <<>>]

---------------------------------------------------------------------------
(* TemplateIntelligenceAgent.map_data_to_template                          *)

\* an amount as one integer of thousandths (amounts below 2 * 10^6 units)
Plain(a) == a.hi * Base + a.lo

RECURSIVE GCD(_, _)
GCD(a, b) == IF b = 0 THEN a ELSE GCD(b, a % b)

\* a quotient of two floats kept exact, as the fraction num / den in lowest
\* terms with den > 0
Fraction(n, d) ==
    [num |-> n \div GCD(IF n < 0 THEN -n ELSE n, d),
     den |-> d \div GCD(IF n < 0 THEN -n ELSE n, d)]
ZeroFraction == [num |-> 0, den |-> 1]

\* (profit / total_revenue) * 100
Percent(profit, total_revenue) == Fraction(100 * Plain(profit), Plain(total_revenue))

\* the keys map_data_to_template accumulates by account name
BucketNames ==
    {"cash", "accounts_receivable", "inventory", "accounts_payable", "service_revenue",
     "sales_revenue", "salaries", "rent", "utilities", "cogs", "other_expenses"}

\* a variant for comparison: a chain with branches for prepaid expenses and
\* retained earnings
BucketOf_WithEquity(account_name_lower) ==
    IF Contains(account_name_lower, "cash") \/ Contains(account_name_lower, "bank")
    THEN "cash"
    ELSE IF Contains(account_name_lower, "receivable") THEN "accounts_receivable"
    ELSE IF Contains(account_name_lower, "inventory") THEN "inventory"
    ELSE IF Contains(account_name_lower, "prepaid") THEN "prepaid_expenses"
    ELSE IF Contains(account_name_lower, "payable") THEN "accounts_payable"
    ELSE IF Contains(account_name_lower, "retained") THEN "retained_earnings"
    ELSE IF Contains(account_name_lower, "revenue") \/ Contains(account_name_lower, "sales")
    THEN "sales_revenue"
    ELSE IF Contains(account_name_lower, "expense") \/ Contains(account_name_lower, "cost")
    THEN "other_expenses"
    ELSE ""

\* a variant for comparison: the expense / cost branch tried before the
\* revenue / sales branch
BucketOf_ExpenseFirst(account_name_lower) ==
    IF Contains(account_name_lower, "cash") \/ Contains(account_name_lower, "bank")
    THEN "cash"
    ELSE IF Contains(account_name_lower, "receivable") THEN "accounts_receivable"
    ELSE IF Contains(account_name_lower, "inventory") THEN "inventory"
    ELSE IF Contains(account_name_lower, "payable") THEN "accounts_payable"
    ELSE IF Contains(account_name_lower, "expense") \/ Contains(account_name_lower, "cost")
    THEN "other_expenses"
    ELSE IF Contains(account_name_lower, "revenue") \/ Contains(account_name_lower, "sales")
    THEN "sales_revenue"
    ELSE ""

\* the if / elif chain "Map specific accounts": the key a record adds to,
\* "" when no branch is taken
BucketOf(account_name_lower) ==
    IF Contains(account_name_lower, "cash") \/ Contains(account_name_lower, "bank")
    THEN "cash"
    ELSE IF Contains(account_name_lower, "receivable") THEN "accounts_receivable"
    ELSE IF Contains(account_name_lower, "inventory") THEN "inventory"
    ELSE IF Contains(account_name_lower, "payable") THEN "accounts_payable"
    ELSE IF Contains(account_name_lower, "revenue") \/ Contains(account_name_lower, "sales")
    THEN IF Contains(account_name_lower, "service") THEN "service_revenue"
         ELSE "sales_revenue"
    ELSE IF Contains(account_name_lower, "expense") \/ Contains(account_name_lower, "cost")
    THEN IF Contains(account_name_lower, "salary") \/ Contains(account_name_lower, "wage")
         THEN "salaries"
         ELSE IF Contains(account_name_lower, "rent") THEN "rent"
         ELSE IF Contains(account_name_lower, "utility")
                 \/ Contains(account_name_lower, "utilities")
         THEN "utilities"
         ELSE IF Contains(account_name_lower, "cogs")
                 \/ Contains(account_name_lower, "cost of goods")
         THEN "cogs"
         ELSE "other_expenses"
    ELSE ""

\* (record.credit or abs(record.balance)) for payables and revenue,
\* (record.debit or record.balance) for every other key
BucketAmount(record, bucket) ==
    IF bucket \in {"accounts_payable", "service_revenue", "sales_revenue"}
    THEN IF record.credit # Zero THEN record.credit ELSE Abs(record.balance)
    ELSE IF record.debit # Zero THEN record.debit ELSE record.balance

\* the key each record adds to, "" for a record that takes no branch
KeyOfEach(rs) == [i \in 1..Len(rs) |-> BucketOf(Lower(rs[i].account_name))]

\* template_data[bucket] after the loop over the records, ks their keys
RECURSIVE BucketTotal(_, _, _)
BucketTotal(rs, ks, bucket) ==
    IF rs = <<>> THEN Zero
    ELSE Add(BucketTotal(SubSeq(rs, 1, Len(rs) - 1), SubSeq(ks, 1, Len(ks) - 1), bucket),
             IF ks[Len(ks)] = bucket THEN BucketAmount(rs[Len(rs)], bucket) ELSE Zero)

\* data.get(k, 0)
DataGet(data, k) == IF k \in DOMAIN data THEN data[k] ELSE Zero

\* "Calculate margins (avoid division by zero)"
Margin(profit, total_revenue) ==
    IF Less(Zero, total_revenue) THEN Percent(profit, total_revenue) ELSE ZeroFraction

\* _calculate_income_statement_totals from the revenue and the two profits on
IncomeMargins(total_revenue, gross_profit, total_operating_expenses, operating_income) ==
    [total_revenue |-> total_revenue,
     gross_profit |-> gross_profit,
     total_operating_expenses |-> total_operating_expenses,
     operating_income |-> operating_income,
     net_other_income |-> Zero,
     net_income |-> Add(operating_income, Zero),
     gross_margin |-> Margin(gross_profit, total_revenue),
     operating_margin |-> Margin(operating_income, total_revenue),
     net_margin |-> Margin(Add(operating_income, Zero), total_revenue)]

IncomeLines(total_revenue, cogs, total_operating_expenses) ==
    IncomeMargins(total_revenue, Sub(total_revenue, cogs), total_operating_expenses,
                  Sub(Sub(total_revenue, cogs), total_operating_expenses))

\* TemplateIntelligenceAgent._calculate_income_statement_totals; the keys the
\* mapping never sets (other_income, insurance, ..., interest_expense) are 0
IncomeStatementTotals(data) ==
    IncomeLines(Add(DataGet(data, "sales_revenue"), DataGet(data, "service_revenue")),
                DataGet(data, "cogs"),
                Add(Add(DataGet(data, "salaries"), DataGet(data, "rent")),
                    Add(DataGet(data, "utilities"), DataGet(data, "other_expenses"))))

\* sum([data.get(k, 0) for k in names])
RECURSIVE SumOfKeys(_, _)
SumOfKeys(data, names) ==
    IF names = <<>> THEN Zero
    ELSE Add(SumOfKeys(data, SubSeq(names, 1, Len(names) - 1)), DataGet(data, names[Len(names)]))

\* the keys _calculate_balance_sheet_totals reads, by section
BalanceSheetKeys ==
    [current_assets |-> <<"cash", "accounts_receivable", "inventory", "prepaid_expenses">>,
     non_current_assets |-> <<"ppe", "investments", "intangible_assets">>,
     current_liabilities |-> <<"accounts_payable", "accrued_expenses", "short_term_debt">>,
     non_current_liabilities |-> <<"long_term_debt", "deferred_tax">>,
     equity |-> <<"share_capital", "retained_earnings">>]

\* the totals from the five section sums
BalanceSheetOf(assets, fixed_assets, liabilities, long_liabilities, equity) ==
    [total_current_assets |-> assets,
     total_non_current_assets |-> fixed_assets,
     total_assets |-> Add(assets, fixed_assets),
     total_current_liabilities |-> liabilities,
     total_non_current_liabilities |-> long_liabilities,
     total_equity |-> equity,
     total_liab_equity |-> Add(Add(liabilities, long_liabilities), equity)]

\* TemplateIntelligenceAgent._calculate_balance_sheet_totals
BalanceSheetTotals(data) ==
    BalanceSheetOf(SumOfKeys(data, BalanceSheetKeys.current_assets),
                   SumOfKeys(data, BalanceSheetKeys.non_current_assets),
                   SumOfKeys(data, BalanceSheetKeys.current_liabilities),
                   SumOfKeys(data, BalanceSheetKeys.non_current_liabilities),
                   SumOfKeys(data, BalanceSheetKeys.equity))

\* template_data before any mapping
NoTemplateData == <<>>

\* template_data['total_debits'] += record.debit, over the records
RECURSIVE TemplateDebits(_)
TemplateDebits(rs) ==
    IF rs = <<>> THEN Zero
    ELSE Add(TemplateDebits(SubSeq(rs, 1, Len(rs) - 1)), rs[Len(rs)].debit)

\* template_data['total_credits'] += record.credit, over the records
RECURSIVE TemplateCredits(_)
TemplateCredits(rs) ==
    IF rs = <<>> THEN Zero
    ELSE Add(TemplateCredits(SubSeq(rs, 1, Len(rs) - 1)), rs[Len(rs)].credit)

\* a variant for comparison: a balance check that fails at a difference of 0.01
BalanceCheck_Strict(total_debits, total_credits) ==
    Less(Abs(Sub(total_debits, total_credits)), M(Milli \div 100))

\* template_data['balance_check'] = template_data['balance_difference'] <= 0.01
BalanceCheck(total_debits, total_credits) ==
    Leq(Abs(Sub(total_debits, total_credits)), M(Milli \div 100))

\* template_data once the loop has filled the account keys: the common
\* fields, the balance check and the template-specific calculation
TemplateData(rs, data, template) ==
    [total_accounts |-> Len(rs),
     total_debits |-> TemplateDebits(rs),
     total_credits |-> TemplateCredits(rs),
     balance_difference |-> Abs(Sub(TemplateDebits(rs), TemplateCredits(rs))),
     balance_check |-> BalanceCheck(TemplateDebits(rs), TemplateCredits(rs)),
     accounts |-> [i \in 1..Len(rs) |->
                      [name |-> rs[i].account_name, type |-> rs[i].account_type,
                       debit |-> rs[i].debit, credit |-> rs[i].credit,
                       balance |-> rs[i].balance]],
     keys |-> DOMAIN data,
     buckets |-> data,
     totals |-> IF template = "balance_sheet.md" THEN BalanceSheetTotals(data)
                ELSE IF template = "profit_loss.md" THEN IncomeStatementTotals(data)
                ELSE <<>>]

\* the account keys after the loop over the records, ks the key of each record
AccountKeys(rs, ks) ==
    [b \in {ks[i] : i \in 1..Len(ks)} \ {""} |-> BucketTotal(rs, ks, b)]

\* TemplateIntelligenceAgent.map_data_to_template(records, template_type):
\* keys = the account keys present, buckets = their sums, totals = the keys
\* the template-specific calculation adds
map_data_to_template(rs, template) ==
    TemplateData(rs, AccountKeys(rs, KeyOfEach(rs)), template)

---------------------------------------------------------------------------
(* ValidationAgent.process_data                                            *)

\* a table without columns or rows
NoTable == [columns |-> <<>>, rows |-> <<>>]

\* an extraction result {success, data, errors}; has_data = FALSE is data None
Extraction(success, has_data, data, errors) ==
    [success |-> success, has_data |-> has_data, data |-> data, errors |-> errors]

ProcessDataFailure(error) ==
    [success |-> FALSE, normalized_records |-> <<>>, has_result |-> FALSE,
     validation_result |-> validate_records(<<>>), errors |-> <<error>>]

\* a variant for comparison: process_data failing when the records do not balance
Normalized_Blocking(out) ==
    IF out.raised THEN ProcessDataFailure("Validation process failed")
    ELSE IF out.records = <<>> THEN ProcessDataFailure("No records could be normalized")
    ELSE [success |-> validate_records(out.records).is_valid,
          normalized_records |-> out.records, has_result |-> TRUE,
          validation_result |-> validate_records(out.records),
          errors |-> validate_records(out.records).errors]

\* process_data once normalize_data returned or raised
Normalized(out) ==
    IF out.raised THEN ProcessDataFailure("Validation process failed")
    ELSE IF out.records = <<>> THEN ProcessDataFailure("No records could be normalized")
    ELSE [success |-> TRUE, normalized_records |-> out.records, has_result |-> TRUE,
          validation_result |-> validate_records(out.records), errors |-> <<>>]

\* a variant for comparison: process_data handing an empty DataFrame on to
\* normalize_data instead of rejecting it
process_data_AcceptsEmpty(extraction_result) ==
    IF ~extraction_result.success \/ ~extraction_result.has_data
    THEN ProcessDataFailure("No valid data to validate")
    ELSE Normalized(normalize_data(extraction_result.data))

process_data(extraction_result) ==
    IF ~extraction_result.success \/ ~extraction_result.has_data
    THEN ProcessDataFailure("No valid data to validate")
    ELSE IF extraction_result.data.rows = <<>> \/ extraction_result.data.columns = <<>>
    THEN ProcessDataFailure("Dataset is empty")
    ELSE Normalized(normalize_data(extraction_result.data))

---------------------------------------------------------------------------
(* AuditTrailAgent: a = [current_sessions, saved, sessions_started]         *)
(* current_sessions maps the open session ids to their AuditRecord; saved   *)
(* lists the records written to the audit folder; a session id (a uuid in   *)
(* the code) is the count of sessions started.                              *)

NewAudit == [current_sessions |-> <<>>, saved |-> <<>>, sessions_started |-> 0]

AuditRecord(session_id) ==
    [session_id |-> session_id, status |-> "in_progress", processing_steps |-> <<>>,
     has_validation_results |-> FALSE, template_used |-> "", errors |-> <<>>,
     output_files |-> <<>>]

IsOpen(a, sid) == sid \in DOMAIN a.current_sessions

\* current_sessions with the record of sid replaced (or added)
PutSession(a, sid, rec) ==
    [a EXCEPT !.current_sessions =
        [s \in (DOMAIN a.current_sessions) \cup {sid} |->
            IF s = sid THEN rec ELSE a.current_sessions[s]]]

start_session(a) ==
    LET sid == a.sessions_started + 1
    IN  PutSession([a EXCEPT !.sessions_started = sid], sid, AuditRecord(sid))

start_step(a, sid, step_name) ==
    IF ~IsOpen(a, sid) THEN a
    ELSE LET rec == a.current_sessions[sid]
         IN  PutSession(a, sid, [rec EXCEPT !.processing_steps =
                 Append(@, [step_name |-> step_name, status |-> "started", errors |-> <<>>])])

end_step(a, sid, step_name, status, errors) ==
    IF ~IsOpen(a, sid) THEN a
    ELSE LET rec     == a.current_sessions[sid]
             steps   == rec.processing_steps
             started == {i \in 1..Len(steps) :
                            steps[i].step_name = step_name /\ steps[i].status = "started"}
         IN  IF started # {}
             THEN LET last == CHOOSE i \in started : \A j \in started : j <= i
                  IN  PutSession(a, sid, [rec EXCEPT !.processing_steps[last] =
                          [@ EXCEPT !.status = status, !.errors = @ \o errors]])
             ELSE PutSession(a, sid, [rec EXCEPT !.processing_steps =
                      Append(@, [step_name |-> step_name, status |-> status, errors |-> errors])])

add_validation_results(a, sid) ==
    IF ~IsOpen(a, sid) THEN a
    ELSE PutSession(a, sid, [a.current_sessions[sid] EXCEPT !.has_validation_results = TRUE])

set_template_used(a, sid, template_name) ==
    IF ~IsOpen(a, sid) THEN a
    ELSE PutSession(a, sid, [a.current_sessions[sid] EXCEPT !.template_used = template_name])

add_output_files(a, sid, files) ==
    IF ~IsOpen(a, sid) THEN a
    ELSE PutSession(a, sid, [a.current_sessions[sid] EXCEPT !.output_files = @ \o files])

add_error(a, sid, error_message) ==
    IF ~IsOpen(a, sid) THEN a
    ELSE PutSession(a, sid, [a.current_sessions[sid] EXCEPT !.errors = Append(@, error_message)])

\* end_session; saved_ok is the outcome of _save_audit_record, which catches
\* its own failure and returns False
end_session(a, sid, final_status, saved_ok) ==
    IF ~IsOpen(a, sid) THEN a
    ELSE LET rec == [a.current_sessions[sid] EXCEPT !.status = final_status]
         IN  [a EXCEPT !.saved = IF saved_ok THEN Append(@, rec) ELSE @,
                       !.current_sessions =
                           [s \in (DOMAIN a.current_sessions) \ {sid} |-> a.current_sessions[s]]]

---------------------------------------------------------------------------
(* FinancialWorkflow.process_file                                          *)
(* A world w = [agents, run, audit]: which collaborators __init__ managed   *)
(* to build, the activation of process_file, and the audit agent's state.   *)
(* Each step operator is one "Step n" block of process_file and gives the   *)
(* world after it.                                                         *)

Stages == <<"security", "ingestion", "validation", "template", "output">>
AgentNames == {"security", "ingestion", "validation", "template", "output", "audit"}

NoSession == 0          \* session_id = None
LocalSession == -1      \* f"session_{int(time.time())}", the id used without an audit agent

NoExtraction == Extraction(FALSE, FALSE, NoTable, <<>>)

\* the ProcessingResult and the locals of process_file at its start
NewRun(file, template_override) ==
    [pc |-> "start",
     file |-> file,
     template_override |-> template_override,
     result |-> [success |-> FALSE, session_id |-> NoSession, output_files |-> <<>>,
                 errors |-> <<>>, warnings |-> <<>>, validation_status |-> ""],
     session_id |-> NoSession,
     status |-> [s \in {Stages[i] : i \in 1..Len(Stages)} |-> "pending"],
     calls |-> <<>>,
     fault |-> FALSE,
     extraction_result |-> NoExtraction,
     validation |-> ProcessDataFailure(""),
     template_type |-> ""]

\* if self.audit_agent: self.audit_agent.start_step(session_id, step_name)
AuditStartStep(w, step_name) ==
    IF w.agents.audit
    THEN [w EXCEPT !.audit = start_step(@, w.run.session_id, step_name)]
    ELSE w

\* if self.audit_agent: self.audit_agent.end_step(session_id, step_name, "completed")
\* and the run goes on to the next block
StageCompleted(w, stage, step_name, next) ==
    LET w1 == IF w.agents.audit
              THEN [w EXCEPT !.audit = end_step(@, w.run.session_id, step_name, "completed", <<>>)]
              ELSE w
    IN  [w1 EXCEPT !.run.status[stage] = "completed", !.run.pc = next]

\* a variant for comparison: a stage failure whose errors reach the result only when audited
StageFailed_AuditedOnly(w, stage, step_name, errors, saved_ok) ==
    LET w1 == IF w.agents.audit
              THEN [w EXCEPT !.run.result.errors = @ \o errors,
                             !.audit =
                       end_session(end_step(@, w.run.session_id, step_name, "failed", errors),
                                   w.run.session_id, "failed", saved_ok)]
              ELSE w
    IN  [w1 EXCEPT !.run.status[stage] = "failed",
                   !.run.pc = "returned"]

\* a stage reported failure: result.errors.extend(errors); the step and the
\* session are ended as failed when there is an audit agent; return result
StageFailed(w, stage, step_name, errors, saved_ok) ==
    LET w1 == IF w.agents.audit
              THEN [w EXCEPT !.audit =
                       end_session(end_step(@, w.run.session_id, step_name, "failed", errors),
                                   w.run.session_id, "failed", saved_ok)]
              ELSE w
    IN  [w1 EXCEPT !.run.result.errors = @ \o errors,
                   !.run.status[stage] = "failed",
                   !.run.pc = "returned"]

\* a variant for comparison: a missing agent ending the run without an error message
AgentMissing_Silent(w, stage, message) ==
    [w EXCEPT !.run.status[stage] = "missing",
              !.run.pc = "returned"]

\* if not self.<stage>_agent: result.errors.append(message); return result
AgentMissing(w, stage, message) ==
    [w EXCEPT !.run.result.errors = Append(@, message),
              !.run.status[stage] = "missing",
              !.run.pc = "returned"]

\* a variant for comparison: a handler that lets the exception out of process_file
ExceptionHandler_Reraises(w, saved_ok) ==
    [w EXCEPT !.run.fault = TRUE,
              !.run.pc = "propagated"]

\* a variant for comparison: a handler that logs the exception and adds
\* nothing to the result's errors
ExceptionHandler_LogsOnly(w, saved_ok) ==
    LET w1 == IF w.run.session_id # NoSession /\ w.agents.audit
              THEN [w EXCEPT !.audit =
                       end_session(add_error(@, w.run.session_id, "Workflow failed"),
                                   w.run.session_id, "error", saved_ok)]
              ELSE w
    IN  [w1 EXCEPT !.run.fault = TRUE,
                   !.run.pc = "returned"]

\* except Exception as e: the handler at the end of process_file
ExceptionHandler(w, saved_ok) ==
    LET w1 == IF w.run.session_id # NoSession /\ w.agents.audit
              THEN [w EXCEPT !.audit =
                       end_session(add_error(@, w.run.session_id, "Workflow failed"),
                                   w.run.session_id, "error", saved_ok)]
              ELSE w
    IN  [w1 EXCEPT !.run.result.errors = Append(@, "Workflow failed"),
                   !.run.fault = TRUE,
                   !.run.pc = "returned"]

\* SecurityAgent.scan_file by kind of file: {safe, errors, warnings}
scan_file(file) ==
    IF file.kind = "unsafe"
    THEN [safe |-> FALSE, errors |-> <<"File extension not supported">>, warnings |-> <<>>]
    ELSE [safe |-> TRUE, errors |-> <<>>,
          warnings |-> IF file.kind = "suspicious"
                       THEN <<"File contains potentially suspicious patterns">> ELSE <<>>]

\* the file check and "Step 1: Start audit session"
StartSession(w, saved_ok) ==
    IF w.run.file.kind = "no_path"               \* os.path.exists(None) raises TypeError
    THEN ExceptionHandler(w, saved_ok)
    ELSE IF w.run.file.kind = "missing"
    THEN [w EXCEPT !.run.result.errors = Append(@, "File not found"), !.run.pc = "returned"]
    ELSE IF w.agents.audit
    THEN [w EXCEPT !.audit = start_session(@),
                   !.run.session_id = w.audit.sessions_started + 1,
                   !.run.result.session_id = w.audit.sessions_started + 1,
                   !.run.pc = "security"]
    ELSE [w EXCEPT !.run.session_id = LocalSession,
                   !.run.result.session_id = LocalSession,
                   !.run.pc = "security"]

\* the call of an agent method noted in the activation
Called(w, method) == [w EXCEPT !.run.calls = Append(@, method)]

\* "Step 2" once scan_file returned security_result
SecurityScanned(w, security_result, saved_ok) ==
    IF ~security_result.safe
    THEN StageFailed(w, "security", "security_scan", security_result.errors, saved_ok)
    ELSE StageCompleted([w EXCEPT !.run.result.warnings = @ \o security_result.warnings],
                        "security", "security_scan", "ingestion")

\* "Step 2: Security scanning"
SecurityScan(w, saved_ok) ==
    IF w.agents.security
    THEN SecurityScanned(Called(AuditStartStep(w, "security_scan"), "scan_file"),
                         scan_file(w.run.file), saved_ok)
    ELSE \* "Security agent not available - skipping security scan"
         StageCompleted(AuditStartStep(w, "security_scan"),
                        "security", "security_scan", "ingestion")

\* "Step 3" once ingestion_agent.process_file returned extraction_result
Ingested(w, extraction_result, saved_ok) ==
    IF ~extraction_result.success
    THEN StageFailed([w EXCEPT !.run.extraction_result = extraction_result],
                     "ingestion", "data_ingestion", extraction_result.errors, saved_ok)
    ELSE StageCompleted([w EXCEPT !.run.extraction_result = extraction_result],
                        "ingestion", "data_ingestion", "validation")

\* "Step 3: Data ingestion"
DataIngestion(w, saved_ok) ==
    IF ~w.agents.ingestion
    THEN AgentMissing(AuditStartStep(w, "data_ingestion"), "ingestion",
                      "Data ingestion agent not available")
    ELSE Ingested(Called(AuditStartStep(w, "data_ingestion"), "process_file"),
                  w.run.file.extraction, saved_ok)

\* a variant for comparison: the validation stage keeping the validator's
\* warnings out of the result
ValidationNoted_DropsWarnings(w, validation_out) ==
    IF validation_out.has_result
    THEN [w EXCEPT !.run.validation = validation_out,
                   !.audit = IF w.agents.audit
                             THEN add_validation_results(@, w.run.session_id) ELSE @]
    ELSE [w EXCEPT !.run.validation = validation_out]

\* "Add validation warnings to result" and "Add validation results to audit"
ValidationNoted(w, validation_out) ==
    IF validation_out.has_result
    THEN [w EXCEPT !.run.validation = validation_out,
                   !.run.result.warnings = @ \o validation_out.validation_result.warnings,
                   !.audit = IF w.agents.audit
                             THEN add_validation_results(@, w.run.session_id) ELSE @]
    ELSE [w EXCEPT !.run.validation = validation_out]

\* a variant for comparison: a failed validation that lets the run go on to the template stage
Validated_Continues(w, validation_out, saved_ok) ==
    IF ~validation_out.success
    THEN [StageFailed([w EXCEPT !.run.validation = validation_out],
                      "validation", "validation", validation_out.errors, saved_ok)
             EXCEPT !.run.pc = "template"]
    ELSE StageCompleted(ValidationNoted(w, validation_out),
                        "validation", "validation", "template")

\* "Step 4" once process_data returned validation_out
Validated(w, validation_out, saved_ok) ==
    IF ~validation_out.success
    THEN StageFailed([w EXCEPT !.run.validation = validation_out],
                     "validation", "validation", validation_out.errors, saved_ok)
    ELSE StageCompleted(ValidationNoted(w, validation_out),
                        "validation", "validation", "template")

\* "Step 4: Data validation and normalization"
Validation(w, saved_ok) ==
    IF ~w.agents.validation
    THEN AgentMissing(AuditStartStep(w, "validation"), "validation",
                      "Validation agent not available")
    ELSE Validated(Called(AuditStartStep(w, "validation"), "process_data"),
                   process_data(w.run.extraction_result), saved_ok)

\* "Step 5" once generate_statement returned statement_result
Rendered(w, statement_result, saved_ok) ==
    IF ~statement_result.success
    THEN StageFailed(w, "template", "template_processing", statement_result.errors, saved_ok)
    ELSE StageCompleted(w, "template", "template_processing", "output")

\* "Step 5" once template_type is chosen: set_template_used, generate_statement
TemplateChosen(w, template, saved_ok) ==
    Rendered([Called(w, "generate_statement") EXCEPT
                 !.run.template_type = template,
                 !.audit = IF w.agents.audit
                           THEN set_template_used(@, w.run.session_id, template) ELSE @],
             generate_statement(w.run.validation.normalized_records, template),
             saved_ok)

\* "Step 5: Template mapping and statement generation"
TemplateProcessing(w, saved_ok) ==
    IF ~w.agents.template
    THEN AgentMissing(AuditStartStep(w, "template_processing"), "template",
                      "Template agent not available")
    ELSE IF w.run.template_override # ""
    THEN TemplateChosen(AuditStartStep(w, "template_processing"),
                        w.run.template_override, saved_ok)
    ELSE TemplateChosen(Called(AuditStartStep(w, "template_processing"), "detect_statement_type"),
                        detect_statement_type(w.run.validation.normalized_records), saved_ok)

\* "Finalize workflow": success, the summary's validation_status, end_session
Finalize(w, saved_ok) ==
    [w EXCEPT !.run.result.success = TRUE,
              !.run.result.validation_status =
                  IF w.run.validation.has_result /\ w.run.validation.validation_result.is_valid
                  THEN "passed" ELSE "warnings",
              !.audit = IF w.agents.audit
                        THEN end_session(@, w.run.session_id, "completed", saved_ok) ELSE @]

\* "Step 6" once create_output_package returned output_result or raised:
\* OutputGenerationAgent returns {success, files_created, errors}
PackageCreated(w, output_result, saved_ok) ==
    IF output_result.raises
    THEN ExceptionHandler([w EXCEPT !.run.status["output"] = "raised"], saved_ok)
    ELSE IF ~output_result.success
    THEN StageFailed(w, "output", "output_generation", output_result.errors, saved_ok)
    ELSE Finalize(
             StageCompleted(
                 [w EXCEPT !.run.result.output_files = output_result.files_created,
                           !.audit = IF w.agents.audit
                                     THEN add_output_files(@, w.run.session_id,
                                                           output_result.files_created)
                                     ELSE @],
                 "output", "output_generation", "returned"),
             saved_ok)

\* "Step 6: Output generation"
OutputGeneration(w, output_result, saved_ok) ==
    IF ~w.agents.output
    THEN AgentMissing(AuditStartStep(w, "output_generation"), "output",
                      "Output agent not available")
    ELSE PackageCreated(Called(AuditStartStep(w, "output_generation"), "create_output_package"),
                        output_result, saved_ok)

---------------------------------------------------------------------------
(* Direct calls of the agents' methods on bounded inputs                   *)

MaxRows == 2            \* rows of an input table
MaxRecords == 3         \* records of a list handed to validate_records
MaxTypedRecords == 5    \* records of a list handed to detect_statement_type

NoResult == validate_records(<<>>)

\* sequences over S of length 0..n
SeqsUpTo(S, n) == UNION {[1..k -> S] : k \in 0..n}

\* header layouts of input files, with the cell texts met in each column
NameCells == {Txt(" Cash "), NaN}
AmountCells == {Txt("1000"), Txt("(500)"), Txt("abc")}
TypeCells == {Txt("Credit"), Txt("Debit"), Txt("Cr"), Txt(""), NaN}

Layouts ==
    { <<"Account", "Debit", "Credit">>,
      <<"Account Name", "Amount">>,
      <<"Name", "Amount", "Type">>,
      <<"Account", "Balance">>,
      <<"Account", "Debit", "Total Debits">> }

CellsOf(col) ==
    LET c == Lower(col)
    IN  IF Contains(c, "account") THEN NameCells
        ELSE IF Contains(c, "name") THEN {Txt(" Cash ")}
        ELSE IF Contains(c, "type") THEN TypeCells
        ELSE IF Contains(c, "total") THEN {Txt("1000")}
        ELSE IF Contains(c, "credit") THEN {Txt("1000"), Txt("(500)")}
        ELSE AmountCells

RECURSIVE RowsOf(_)
RowsOf(columns) ==
    IF columns = <<>> THEN {<<>>}
    ELSE {Append(row, c) : row \in RowsOf(SubSeq(columns, 1, Len(columns) - 1)),
                           c \in CellsOf(columns[Len(columns)])}

Tables == UNION {{[columns |-> cs, rows |-> rs] : rs \in SeqsUpTo(RowsOf(cs), MaxRows)} : cs \in Layouts}

\* a record as normalize_data builds it from a name and its amounts
MakeRecord(name, debit, credit) ==
    LET cat == categorize_account(name)
    IN  [FinancialRecord(name) EXCEPT !.debit = debit, !.credit = credit,
                                      !.account_type = cat[1], !.category = cat[2]]

\* records for validate_records: differences below, at and above the tolerance
LedgerRecords ==
    { MakeRecord("Cash", M(1000), Zero), MakeRecord("Cash", M(1005), Zero),
      MakeRecord("Cash", M(1010), Zero), MakeRecord("Cash", M(1015), Zero),
      MakeRecord("Cash", Neg(M(500)), Zero), MakeRecord("Capital", Zero, M(1000)),
      MakeRecord("Capital", Zero, M(500)), MakeRecord("X", Zero, Zero) }

\* records for validate_records that meet each warning: an amount above the
\* ceiling, a missing and a one-letter account name, a record without
\* amounts, and names that repeat
WarningRecords ==
    { MakeRecord("Cash", M(1000000), Zero), MakeRecord("Capital", Zero, M(1000000)),
      MakeRecord("Vault", Amt(1000, 0), Zero), MakeRecord("Capital", Zero, Amt(1000, 0)),
      MakeRecord("", Zero, Zero), MakeRecord("X", M(1000000), Zero),
      MakeRecord("Cash", Zero, Zero) }

\* records for detect_statement_type: one account per account type
TypedRecords ==
    { MakeRecord(n, Zero, Zero) : n \in {"Cash", "Loan", "Equity", "Sales", "Rent", "Misc"} }

DataIdle ==
    /\ df = NoTable /\ records = <<>> /\ validation_result = NoResult
    /\ template_type = "" /\ normalize_raised = FALSE
    /\ template_data = NoTemplateData /\ call = ""

\* no workflow object: the agents' methods are called directly
NoFile == [kind |-> "missing", extraction |-> NoExtraction]
\* batch_process is not running
NoBatch == [pc |-> "idle", file_paths |-> <<>>, results |-> <<>>, alone |-> <<>>]
PipeIdle ==
    /\ agents = [n \in AgentNames |-> TRUE]
    /\ run = NewRun(NoFile, "") /\ shadow = NewRun(NoFile, "") /\ audit = NewAudit
    /\ batch = NoBatch

\* a variant for comparison: a list kept by the agent from one call to the next
NewList_Kept(previous) == previous

\* records = []: the list a call of normalize_data fills, whatever list the
\* call before returned
NewList(previous) == <<>>

\* records = self.normalize_data(df)
NormalizeData ==
    /\ call = "extract"
    /\ LET out == normalize_data(df)
       IN  records' = NewList(records) \o out.records /\ normalize_raised' = out.raised
    /\ call' = "normalize_data"
    /\ UNCHANGED <<df, validation_result, template_type, template_data, pipeVars>>

\* normalize_data called once more on the table the first call was given
NormalizeAgain ==
    /\ call = "normalize_data"
    /\ LET out == normalize_data(df)
       IN  records' = NewList(records) \o out.records /\ normalize_raised' = out.raised
    /\ call' = "normalize_data_again"
    /\ UNCHANGED <<df, validation_result, template_type, template_data, pipeVars>>

\* a variant for comparison: a loop that lower-cases each record's name in place
RecordsRead_LowersNames(rs) ==
    [i \in 1..Len(rs) |-> [rs[i] EXCEPT !.account_name = Lower(@)]]

\* the caller's list after "for record in records" in validate_records,
\* detect_statement_type and map_data_to_template: the loops read the
\* records' fields into locals and assign to none of them
RecordsRead(rs) == rs

\* validation_result = self.validate_records(records)
ValidateRecords ==
    /\ call \in {"normalize_data", "records"} /\ ~normalize_raised
    /\ validation_result' = validate_records(records)
    /\ records' = RecordsRead(records)
    /\ call' = "validate_records"
    /\ UNCHANGED <<df, template_type, template_data, normalize_raised, pipeVars>>

\* template_type = self.detect_statement_type(records)
DetectStatementType ==
    /\ call \in {"validate_records", "typed_records"}
    /\ template_type' = detect_statement_type(records)
    /\ records' = RecordsRead(records)
    /\ call' = "detect_statement_type"
    /\ UNCHANGED <<df, validation_result, template_data, normalize_raised, pipeVars>>

\* template_data = self.map_data_to_template(records, template_type)
MapDataToTemplate ==
    /\ call = "normalize_data" /\ ~normalize_raised
    /\ \E template \in DefaultTemplates :
          /\ template_type' = template
          /\ template_data' = map_data_to_template(records, template)
    /\ records' = RecordsRead(records)
    /\ call' = "map_data_to_template"
    /\ UNCHANGED <<df, validation_result, normalize_raised, pipeVars>>

\* statement_result = self.template_agent.generate_statement(records, template_type)
\* with the template detect_statement_type chose: map_data_to_template on
\* the same list
GenerateStatement ==
    /\ call = "detect_statement_type" /\ records # <<>>
    /\ template_data' = map_data_to_template(records, template_type)
    /\ records' = RecordsRead(records)
    /\ call' = "generate_statement"
    /\ UNCHANGED <<df, validation_result, template_type, normalize_raised, pipeVars>>

InitNormalize ==
    /\ df \in Tables /\ call = "extract"
    /\ records = <<>> /\ validation_result = NoResult /\ template_type = "" /\ normalize_raised = FALSE
    /\ template_data = NoTemplateData
    /\ PipeIdle
NextNormalize == NormalizeData
SpecNormalize == InitNormalize /\ [][NextNormalize]_vars

InitValidate ==
    /\ records \in SeqsUpTo(LedgerRecords, MaxRecords) /\ call = "records"
    /\ df = NoTable /\ validation_result = NoResult /\ template_type = "" /\ normalize_raised = FALSE
    /\ template_data = NoTemplateData
    /\ PipeIdle
NextValidate == ValidateRecords
SpecValidate == InitValidate /\ [][NextValidate]_vars

InitWarnings ==
    /\ records \in SeqsUpTo(WarningRecords, MaxRecords) /\ call = "records"
    /\ df = NoTable /\ validation_result = NoResult /\ template_type = "" /\ normalize_raised = FALSE
    /\ template_data = NoTemplateData
    /\ PipeIdle
NextWarnings == ValidateRecords
SpecWarnings == InitWarnings /\ [][NextWarnings]_vars

InitDetect ==
    /\ records \in SeqsUpTo(TypedRecords, MaxTypedRecords) /\ call = "typed_records"
    /\ df = NoTable /\ validation_result = NoResult /\ template_type = "" /\ normalize_raised = FALSE
    /\ template_data = NoTemplateData
    /\ PipeIdle
NextDetect == DetectStatementType
SpecDetect == InitDetect /\ [][NextDetect]_vars

\* tables of account names only: every row is categorized by its name
MaxAccounts == 2        \* rows of a table of account names

AccountCells ==
    { Txt("Cash"), Txt("Loan Receivable"), Txt("Accrued Revenue"), Txt("Cost of Sales"),
      Txt("Capital Equipment"), Txt("Retained Earnings"), Txt("RENT EXPENSE"),
      Txt("Misc"), NaN }

AccountTables ==
    { [columns |-> <<"Account">>, rows |-> [i \in 1..Len(names) |-> <<names[i]>>]]
        : names \in SeqsUpTo(AccountCells, MaxAccounts) }

InitCategorize ==
    /\ df \in AccountTables /\ call = "extract"
    /\ records = <<>> /\ validation_result = NoResult /\ template_type = "" /\ normalize_raised = FALSE
    /\ template_data = NoTemplateData
    /\ PipeIdle
NextCategorize == NormalizeData
SpecCategorize == InitCategorize /\ [][NextCategorize]_vars

\* tables of one amount column: every cell goes through clean_amount_value
MaxAmounts == 2         \* rows of a table of amounts

AmountTexts ==
    { Txt("$1,234.56"), Txt("(500)"), Txt(""), Txt("abc"), Txt("1,234"), NaN,
      Txt(" NaN "), Txt("NULL"), Txt("None"), Txt("1.2.3"), Txt("--5"), Txt("-200"),
      Txt("1,5"), Txt("(5"), Txt("1,234,567.8") }

AmountTables ==
    { [columns |-> <<"Amount">>, rows |-> [i \in 1..Len(cells) |-> <<cells[i]>>]]
        : cells \in SeqsUpTo(AmountTexts, MaxAmounts) }

InitAmounts ==
    /\ df \in AmountTables /\ call = "extract"
    /\ records = <<>> /\ validation_result = NoResult /\ template_type = "" /\ normalize_raised = FALSE
    /\ template_data = NoTemplateData
    /\ PipeIdle
NextAmounts == NormalizeData
SpecAmounts == InitAmounts /\ [][NextAmounts]_vars

\* ledgers of named lines, normalized and then mapped to a template
MaxLedgerLines == 2     \* rows of a ledger handed to map_data_to_template

LedgerLines ==
    { <<Txt("Sales Revenue"), Txt("0"), Txt("500")>>,
      <<Txt("Sales Returns"), Txt("0"), Txt("(500)")>>,
      <<Txt("Service Revenue"), NaN, Txt("1000")>>,
      <<Txt("Cost of Goods Sold"), Txt("200"), NaN>>,
      <<Txt("Rent Expense"), Txt("200"), Txt("0")>>,
      <<Txt("Salary Expense"), Txt("300"), Txt("0")>>,
      <<Txt("Utilities Expense"), Txt("100"), NaN>>,
      <<Txt("Cash"), Txt("500"), Txt("0")>>,
      <<Txt("Accounts Payable"), Txt("0"), Txt("200")>>,
      <<Txt("Misc"), Txt("0"), Txt("0")>> }

Ledgers ==
    { [columns |-> <<"Account", "Debit", "Credit">>, rows |-> rs]
        : rs \in SeqsUpTo(LedgerLines, MaxLedgerLines) }

InitTemplate ==
    /\ df \in Ledgers /\ call = "extract"
    /\ records = <<>> /\ validation_result = NoResult /\ template_type = "" /\ normalize_raised = FALSE
    /\ template_data = NoTemplateData
    /\ PipeIdle
NextTemplate == NormalizeData \/ MapDataToTemplate
SpecTemplate == InitTemplate /\ [][NextTemplate]_vars

\* one-row tables under lists of distinct headers
MaxHeaders == 2         \* columns of such a table

Headers ==
    {"Account", "Name", "Account No", "Debit", "Total Debits", "Credit Balance",
     "Amount", "Total Value", "Type", "Description", "Date"}

HeaderLists ==
    {cs \in SeqsUpTo(Headers, MaxHeaders) :
        cs # <<>> /\ \A i, j \in 1..Len(cs) : cs[i] = cs[j] => i = j}

\* the cell of column i holds the amount 10 * i
HeaderTables ==
    { [columns |-> cs,
       rows |-> << [i \in 1..Len(cs) |-> Txt(<<"10", "20", "30", "40">>[i])] >>]
        : cs \in HeaderLists }

InitHeaders ==
    /\ df \in HeaderTables /\ call = "extract"
    /\ records = <<>> /\ validation_result = NoResult /\ template_type = ""
    /\ normalize_raised = FALSE
    /\ template_data = NoTemplateData
    /\ PipeIdle

NextHeaders == NormalizeData
SpecHeaders == InitHeaders /\ [][NextHeaders]_vars

\* tables with a balance column, alone or next to debit / credit or amount
MaxBalanceRows == 2     \* rows of such a table

BalanceLayouts ==
    { <<"Account", "Balance">>,
      <<"Account", "Debit", "Credit", "Balance">>,
      <<"Account", "Amount", "Balance">> }

BalanceCellsOf(col) ==
    IF col = "Account" THEN {Txt("Loan")}
    ELSE IF col = "Debit" THEN {NaN, Txt("200")}
    ELSE IF col = "Credit" THEN {NaN, Txt("300")}
    ELSE IF col = "Amount" THEN {Txt("0"), Txt("(75)")}
    ELSE {Txt("1000"), Txt("(500)"), Txt("0")}

RECURSIVE BalanceRowsOf(_)
BalanceRowsOf(columns) ==
    IF columns = <<>> THEN {<<>>}
    ELSE {Append(row, c) : row \in BalanceRowsOf(SubSeq(columns, 1, Len(columns) - 1)),
                           c \in BalanceCellsOf(columns[Len(columns)])}

BalanceTables ==
    UNION {{[columns |-> cs, rows |-> rs] : rs \in SeqsUpTo(BalanceRowsOf(cs), MaxBalanceRows)} :
           cs \in BalanceLayouts}

InitBalance ==
    /\ df \in BalanceTables /\ call = "extract"
    /\ records = <<>> /\ validation_result = NoResult /\ template_type = ""
    /\ normalize_raised = FALSE
    /\ template_data = NoTemplateData
    /\ PipeIdle

NextBalance == NormalizeData
SpecBalance == InitBalance /\ [][NextBalance]_vars

\* ledgers whose account names meet none, one or several of the mapper's keywords
MaxBucketLines == 2     \* rows of such a ledger

BucketLines ==
    { <<Txt("Cash Sales"), Txt("100"), NaN>>,
      <<Txt("Bank Loan Payable"), NaN, Txt("300")>>,
      <<Txt("Accounts Receivable"), Txt("200"), NaN>>,
      <<Txt("Inventory Cost"), Txt("150"), NaN>>,
      <<Txt("Accounts Payable"), NaN, Txt("200")>>,
      <<Txt("Cost of Sales"), Txt("80"), NaN>>,
      <<Txt("Prepaid Expenses"), Txt("50"), NaN>>,
      <<Txt("Retained Earnings"), NaN, Txt("500")>> }

BucketLedgers ==
    { [columns |-> <<"Account", "Debit", "Credit">>, rows |-> rs]
        : rs \in SeqsUpTo(BucketLines, MaxBucketLines) }

InitBuckets ==
    /\ df \in BucketLedgers /\ call = "extract"
    /\ records = <<>> /\ validation_result = NoResult /\ template_type = ""
    /\ normalize_raised = FALSE
    /\ template_data = NoTemplateData
    /\ PipeIdle

NextBuckets == NormalizeData \/ MapDataToTemplate
SpecBuckets == InitBuckets /\ [][NextBuckets]_vars

\* tables normalized twice
MaxRepeatRows == 2      \* rows of a table normalized twice

RepeatLayouts ==
    { <<"Name", "Amount", "Type">>,
      <<"Account", "Balance">>,
      <<"Account", "Debit", "Total Debits">> }

RepeatTables ==
    UNION {{[columns |-> cs, rows |-> rs] : rs \in SeqsUpTo(RowsOf(cs), MaxRepeatRows)} :
           cs \in RepeatLayouts}

InitRepeat ==
    /\ df \in RepeatTables
    /\ records = <<>> /\ validation_result = NoResult /\ template_type = ""
    /\ template_data = NoTemplateData
    /\ normalize_raised = FALSE /\ call = "extract"
    /\ PipeIdle

NextRepeat == NormalizeData \/ NormalizeAgain
SpecRepeat == InitRepeat /\ [][NextRepeat]_vars

\* worked ledgers: the three methods called one after the other on small
\* tables with plain headers, as process_data and process_file chain them
MaxScenarioRows == 2    \* rows of a worked ledger

ScenarioNames == {Txt("Cash"), Txt("Common Stock"), Txt("Sales Revenue")}

ScenarioLayouts == { <<"account", "debit", "credit">>, <<"account", "amount">> }

ScenarioCells(col) ==
    IF col = "account" THEN ScenarioNames
    ELSE IF col = "amount" THEN {Txt("500"), Txt("-200")}
    ELSE {Txt("1000"), Txt("0")}

RECURSIVE ScenarioRows(_)
ScenarioRows(columns) ==
    IF columns = <<>> THEN {<<>>}
    ELSE {Append(row, c) : row \in ScenarioRows(SubSeq(columns, 1, Len(columns) - 1)),
                           c \in ScenarioCells(columns[Len(columns)])}

ScenarioTables ==
    UNION {{[columns |-> cs, rows |-> rs] : rs \in SeqsUpTo(ScenarioRows(cs), MaxScenarioRows)}
              : cs \in ScenarioLayouts}

InitScenario ==
    /\ df \in ScenarioTables /\ call = "extract"
    /\ records = <<>> /\ validation_result = NoResult /\ template_type = "" /\ normalize_raised = FALSE
    /\ template_data = NoTemplateData
    /\ PipeIdle
NextScenario == NormalizeData \/ ValidateRecords \/ DetectStatementType
SpecScenario == InitScenario /\ [][NextScenario]_vars

\* ledgers taken through validation, template choice and mapping
MaxChainLines == 2      \* rows of such a ledger

ChainLines ==
    { <<Txt("Cash"), Txt("500"), Txt("0")>>,
      <<Txt("Sales Revenue"), Txt("0"), Txt("500")>>,
      <<Txt("Sales Returns"), Txt("0"), Txt("(500)")>>,
      <<Txt("Rent Expense"), Txt("200.01"), NaN>>,
      <<Txt("Accounts Payable"), NaN, Txt("200")>>,
      <<Txt("Misc"), Txt("0"), Txt("0")>> }

ChainLedgers ==
    { [columns |-> <<"Account", "Debit", "Credit">>, rows |-> rs]
        : rs \in SeqsUpTo(ChainLines, MaxChainLines) }

InitChain ==
    /\ df \in ChainLedgers /\ call = "extract"
    /\ records = <<>> /\ validation_result = NoResult /\ template_type = ""
    /\ normalize_raised = FALSE
    /\ template_data = NoTemplateData
    /\ PipeIdle

NextChain == NormalizeData \/ ValidateRecords \/ DetectStatementType \/ GenerateStatement
SpecChain == InitChain /\ [][NextChain]_vars

---------------------------------------------------------------------------
(* One process_file run of a FinancialWorkflow                             *)

\* the placeholder table extract_from_image returns for every image
PlaceholderTable ==
    [columns |-> <<"Account", "Amount", "Type">>,
     rows |-> << <<Txt("OCR_Extracted_Account_1"), Txt("1000.0"), Txt("Debit")>>,
                 <<Txt("OCR_Extracted_Account_2"), Txt("2500.0"), Txt("Credit")>>,
                 <<Txt("OCR_Extracted_Account_3"), Txt("750.0"), Txt("Debit")>> >>]

\* a two-line ledger that balances
BalancedTable ==
    [columns |-> <<"Account", "Debit", "Credit">>,
     rows |-> << <<Txt("Cash"), Txt("1,000.00"), NaN>>,
                 <<Txt("Capital"), NaN, Txt("1000")>> >>]

\* a table whose rows dropna(how='all') all removed
BlankTable == [columns |-> <<"Account", "Debit", "Credit">>, rows |-> <<>>]

\* a ledger that balances and names one account twice
RepeatedNameTable ==
    [columns |-> <<"Account", "Debit", "Credit">>,
     rows |-> << <<Txt("Cash"), Txt("1,000.00"), NaN>>,
                 <<Txt("Cash"), NaN, Txt("1000")>> >>]

\* two headers that normalize_column_names both renames to 'debit'
TwoDebitsTable ==
    [columns |-> <<"Account", "Debit", "Total Debits">>,
     rows |-> << <<Txt("Cash"), Txt("1000"), Txt("1000")>> >>]

\* what DataIngestionAgent.process_file returns for a readable path
Extractions ==
    { Extraction(FALSE, FALSE, NoTable, <<"CSV file is empty">>) } \cup
    { Extraction(TRUE, TRUE, t, <<>>) :
        t \in {PlaceholderTable, BalancedTable, RepeatedNameTable, BlankTable,
               TwoDebitsTable} }

\* the file_path argument by kind: None, a path that does not exist, a path
\* the security scan rejects, and paths it accepts without or with warnings
Files ==
    { [kind |-> "no_path", extraction |-> NoExtraction],
      [kind |-> "missing", extraction |-> NoExtraction],
      [kind |-> "unsafe",
       extraction |-> Extraction(FALSE, FALSE, NoTable, <<"Unsupported file format">>)] } \cup
    { [kind |-> k, extraction |-> e] : k \in {"clean", "suspicious"}, e \in Extractions }

\* template_override: None ("") or the name of a template nobody created
TemplateOverrides == {"", "custom.md"}

\* OutputGenerationAgent.create_output_package: files written, a reported
\* failure, or an exception
OutputResults ==
    { [raises |-> FALSE, success |-> TRUE,
       files_created |-> <<"statement.md", "statement.html">>, errors |-> <<>>],
      [raises |-> FALSE, success |-> FALSE, files_created |-> <<>>,
       errors |-> <<"Output generation failed">>],
      [raises |-> TRUE, success |-> FALSE, files_created |-> <<>>, errors |-> <<>>] }

World == [agents |-> agents, run |-> run, audit |-> audit]
\* the same call on a workflow without an audit agent
ShadowWorld == [agents |-> [agents EXCEPT !["audit"] = FALSE], run |-> shadow, audit |-> NewAudit]

\* the workflow and its audit-less twin after one block of process_file
Taken(w, twin) ==
    /\ run' = w.run
    /\ audit' = w.audit
    /\ shadow' = twin.run
    /\ UNCHANGED <<agents, batch, dataVars>>

\* both activations stand at block pc
At(pc) == run.pc = pc /\ shadow.pc = pc

RunStartSession ==
    /\ At("start")
    /\ \E saved_ok \in BOOLEAN :
          Taken(StartSession(World, saved_ok), StartSession(ShadowWorld, TRUE))

RunSecurityScan ==
    /\ At("security")
    /\ \E saved_ok \in BOOLEAN :
          Taken(SecurityScan(World, saved_ok), SecurityScan(ShadowWorld, TRUE))

RunDataIngestion ==
    /\ At("ingestion")
    /\ \E saved_ok \in BOOLEAN :
          Taken(DataIngestion(World, saved_ok), DataIngestion(ShadowWorld, TRUE))

RunValidation ==
    /\ At("validation")
    /\ \E saved_ok \in BOOLEAN :
          Taken(Validation(World, saved_ok), Validation(ShadowWorld, TRUE))

RunTemplateProcessing ==
    /\ At("template")
    /\ \E saved_ok \in BOOLEAN :
          Taken(TemplateProcessing(World, saved_ok), TemplateProcessing(ShadowWorld, TRUE))

RunOutputGeneration ==
    /\ At("output")
    /\ \E saved_ok \in BOOLEAN, output_result \in OutputResults :
          Taken(OutputGeneration(World, output_result, saved_ok),
                OutputGeneration(ShadowWorld, output_result, TRUE))

Init ==
    /\ agents \in [AgentNames -> BOOLEAN]
    /\ \E file \in Files, template_override \in TemplateOverrides :
          /\ run = NewRun(file, template_override)
          /\ shadow = NewRun(file, template_override)
    /\ audit = NewAudit
    /\ batch = NoBatch
    /\ DataIdle

Next ==
    \/ RunStartSession
    \/ RunSecurityScan
    \/ RunDataIngestion
    \/ RunValidation
    \/ RunTemplateProcessing
    \/ RunOutputGeneration

Spec == Init /\ [][Next]_vars

---------------------------------------------------------------------------
(* FinancialWorkflow.batch_process                                         *)

MaxFiles == 2           \* length of the file_paths list of a batch

\* the block of process_file the activation stands at
Block(w, output_result, saved_ok) ==
    IF w.run.pc = "start" THEN StartSession(w, saved_ok)
    ELSE IF w.run.pc = "security" THEN SecurityScan(w, saved_ok)
    ELSE IF w.run.pc = "ingestion" THEN DataIngestion(w, saved_ok)
    ELSE IF w.run.pc = "validation" THEN Validation(w, saved_ok)
    ELSE IF w.run.pc = "template" THEN TemplateProcessing(w, saved_ok)
    ELSE OutputGeneration(w, output_result, saved_ok)

\* process_file from the activation's position to its return, where
\* create_output_package gives output_result and _save_audit_record saved_ok
RECURSIVE process_file(_, _, _)
process_file(w, output_result, saved_ok) ==
    IF w.run.pc = "returned" THEN w
    ELSE process_file(Block(w, output_result, saved_ok), output_result, saved_ok)

\* a variant for comparison: a batch whose runs share one errors list
RunInBatch_SharedErrors(w, file_path) ==
    [w EXCEPT !.run = [NewRun(file_path, "") EXCEPT !.result.errors = w.run.result.errors]]

\* self.process_file(file_path, user_id): a new activation on the same workflow
RunInBatch(w, file_path) == [w EXCEPT !.run = NewRun(file_path, "")]

\* the same call as the first call on a workflow built with the same agents
RunAlone(file_path) == [agents |-> agents, run |-> NewRun(file_path, ""), audit |-> NewAudit]

\* a ProcessingResult without the value of its session id (a fresh uuid4,
\* or the clock, in every run)
SessionBlind(result) ==
    [result EXCEPT !.session_id = IF @ = NoSession THEN NoSession ELSE LocalSession]

\* the workflows __init__ can build: every agent, or all but one
Workflows == {[n \in AgentNames |-> n # missing] : missing \in AgentNames \cup {"none"}}

\* the file paths of a batch
BatchFiles ==
    { [kind |-> "missing", extraction |-> NoExtraction],
      [kind |-> "unsafe",
       extraction |-> Extraction(FALSE, FALSE, NoTable, <<"Unsupported file format">>)],
      [kind |-> "clean", extraction |-> Extraction(TRUE, TRUE, BalancedTable, <<>>)],
      [kind |-> "clean", extraction |-> Extraction(TRUE, TRUE, TwoDebitsTable, <<>>)] }

\* results.append(result) after the run that ended in world w
Appended(w, alone) ==
    /\ run' = w.run
    /\ audit' = w.audit
    /\ shadow' = alone.run
    /\ batch' = [batch EXCEPT !.results = Append(@, w.run.result),
                              !.alone = Append(@, alone.run)]
    /\ UNCHANGED <<agents, dataVars>>

\* one iteration of "for i, file_path in enumerate(file_paths)"
BatchProcessFile ==
    /\ batch.pc = "loop"
    /\ Len(batch.results) < Len(batch.file_paths)
    /\ \E output_result \in OutputResults, saved_ok \in BOOLEAN :
          Appended(process_file(RunInBatch(World, batch.file_paths[Len(batch.results) + 1]),
                                output_result, saved_ok),
                   process_file(RunAlone(batch.file_paths[Len(batch.results) + 1]),
                                output_result, saved_ok))

\* the loop is over: return results
BatchReturn ==
    /\ batch.pc = "loop"
    /\ Len(batch.results) = Len(batch.file_paths)
    /\ batch' = [batch EXCEPT !.pc = "returned"]
    /\ UNCHANGED <<agents, run, audit, shadow, dataVars>>

InitBatch ==
    /\ agents \in Workflows
    /\ run = NewRun(NoFile, "") /\ shadow = NewRun(NoFile, "")
    /\ audit = NewAudit
    /\ \E file_paths \in SeqsUpTo(BatchFiles, MaxFiles) :
          batch = [NoBatch EXCEPT !.pc = "loop", !.file_paths = file_paths]
    /\ DataIdle

NextBatch == BatchProcessFile \/ BatchReturn
SpecBatch == InitBatch /\ [][NextBatch]_vars

---------------------------------------------------------------------------
(* Properties                                                              *)

\* C1: for every list of records, validate_records returns balance_difference
\* equal to |sum of debits - sum of credits| over the whole list, and is_valid
\* is true exactly when balance_difference <= tolerance (0.01).  The sums are
\* taken here as plain integers of thousandths, apart from the two-limb
\* arithmetic of the model.
C1_BalanceDifference ==
    call = "validate_records" =>
        LET milli(a) == a.hi * Base + a.lo
            D[k \in 0..Len(records)] == IF k = 0 THEN 0 ELSE D[k - 1] + milli(records[k].debit)
            C[k \in 0..Len(records)] == IF k = 0 THEN 0 ELSE C[k - 1] + milli(records[k].credit)
            diff == D[Len(records)] - C[Len(records)]
            dist == IF diff < 0 THEN -diff ELSE diff
        IN  /\ milli(validation_result.balance_difference) = dist
            /\ validation_result.is_valid <=> (dist <= Milli \div 100)

\* C1 witness: a list whose difference is exactly the tolerance was validated
\* and found valid
C1_Witness ==
    /\ call = "validate_records"
    /\ Len(records) >= 2
    /\ validation_result.balance_difference = Tolerance
    /\ validation_result.is_valid

\* C2 (as stated): when validation finds the records out of balance
\* (is_valid = false) the run is blocked: the not-balanced error is among the
\* run's errors, success is false, and neither template processing nor output
\* generation is started.
C2_UnbalancedBlocksRun ==
    (/\ run.validation.has_result
     /\ ~run.validation.validation_result.is_valid
     /\ run.pc # "validation") =>
        /\ run.pc = "returned"
        /\ ~run.result.success
        /\ \E i \in 1..Len(run.result.errors) : run.result.errors[i] = "not_balanced"
        /\ run.status["template"] = "pending"
        /\ run.status["output"] = "pending"

\* C2 (amended): when validation finds the records out of balance, process_data
\* still reports success and keeps the not-balanced error inside its
\* validation_result; process_file completes the validation stage, adds no
\* error to the run, goes on to template processing, and a run that then
\* succeeds carries validation_status "warnings".
C2_UnbalancedDoesNotBlock ==
    (/\ run.validation.has_result
     /\ ~run.validation.validation_result.is_valid) =>
        /\ run.validation.success
        /\ run.validation.validation_result.errors = <<"not_balanced">>
        /\ run.status["validation"] = "completed"
        /\ run.pc = "template" \/ run.status["template"] # "pending"
        /\ \A i \in 1..Len(run.result.errors) : run.result.errors[i] # "not_balanced"
        /\ run.result.success => run.result.validation_status = "warnings"

\* C2 witness: records that do not balance passed validation and the template
\* stage rendered a statement from them
C2_Witness ==
    /\ run.validation.has_result
    /\ ~run.validation.validation_result.is_valid
    /\ run.status["validation"] = "completed"
    /\ run.status["template"] = "completed"
    /\ run.result.errors = <<>>

\* C3: within one run the stages go in the order security, ingestion,
\* validation, template, output: a stage is entered only when every earlier
\* one completed, the agents' methods are called in that order, and once a
\* stage fails (reports failure, lacks its agent, or raises) no later stage is
\* entered and the run has returned with success = false.
C3_SequentialFailFast ==
    LET st(i) == run.status[Stages[i]]
        rank  == [m \in {"scan_file", "process_file", "process_data", "detect_statement_type",
                         "generate_statement", "create_output_package"} |->
                    CASE m = "scan_file" -> 1
                      [] m = "process_file" -> 2
                      [] m = "process_data" -> 3
                      [] m = "detect_statement_type" -> 4
                      [] m = "generate_statement" -> 5
                      [] m = "create_output_package" -> 6]
    IN  /\ \A i \in 2..Len(Stages) : st(i) # "pending" => st(i - 1) = "completed"
        /\ \A i \in 1..Len(Stages) :
              st(i) \in {"failed", "missing", "raised"} =>
                  /\ \A j \in (i + 1)..Len(Stages) : st(j) = "pending"
                  /\ run.pc = "returned"
                  /\ ~run.result.success
        /\ \A i \in 1..Len(run.calls) : \A j \in (i + 1)..Len(run.calls) :
              rank[run.calls[i]] < rank[run.calls[j]]
        /\ run.result.success => \A i \in 1..Len(Stages) : st(i) = "completed"

\* C3 witness: validation reported failure after security and ingestion
\* completed, and the run returned without entering the template stage
C3_Witness ==
    /\ run.pc = "returned"
    /\ run.status["security"] = "completed"
    /\ run.status["ingestion"] = "completed"
    /\ run.status["validation"] = "failed"
    /\ run.status["template"] = "pending"
    /\ run.calls = <<"scan_file", "process_file", "process_data">>

\* C4 (as stated): whenever a stage is reached whose agent is None (security,
\* ingestion, validation, template or output), the run fails at once with an
\* error naming the missing agent; no stage is skipped while the run goes on.
C4_MissingAgentFailsRun ==
    \A i \in 1..Len(Stages) :
        (~agents[Stages[i]] /\ run.status[Stages[i]] # "pending") =>
            /\ run.status[Stages[i]] = "missing"
            /\ run.pc = "returned"
            /\ ~run.result.success
            /\ run.result.errors # <<>>

\* C4 (amended): a missing ingestion, validation, template or output agent
\* fails the run at once, its method uncalled, with the error naming it as the
\* run's last error; a missing security agent does not: the scan is skipped
\* (scan_file uncalled, a warning logged) and the run goes on to ingestion.
C4_MissingAgentExceptSecurity ==
    LET message == [s \in {"ingestion", "validation", "template", "output"} |->
                      CASE s = "ingestion" -> "Data ingestion agent not available"
                        [] s = "validation" -> "Validation agent not available"
                        [] s = "template" -> "Template agent not available"
                        [] s = "output" -> "Output agent not available"]
        method  == [s \in {"ingestion", "validation", "template", "output"} |->
                      CASE s = "ingestion" -> "process_file"
                        [] s = "validation" -> "process_data"
                        [] s = "template" -> "generate_statement"
                        [] s = "output" -> "create_output_package"]
    IN  /\ \A s \in DOMAIN message :
              (~agents[s] /\ run.status[s] # "pending") =>
                  /\ run.status[s] = "missing"
                  /\ run.pc = "returned"
                  /\ ~run.result.success
                  /\ run.result.errors # <<>>
                  /\ run.result.errors[Len(run.result.errors)] = message[s]
                  /\ \A i \in 1..Len(run.calls) : run.calls[i] # method[s]
        /\ (~agents["security"] /\ run.status["security"] # "pending") =>
              /\ run.status["security"] = "completed"
              /\ \A i \in 1..Len(run.calls) : run.calls[i] # "scan_file"
              /\ run.pc = "ingestion" \/ run.status["ingestion"] # "pending"

\* C4 witness: a workflow without security and validation agents skipped the
\* scan, ingested the file and failed at the validation stage
C4_Witness ==
    /\ ~agents["security"]
    /\ ~agents["validation"]
    /\ run.status["security"] = "completed"
    /\ run.status["ingestion"] = "completed"
    /\ run.status["validation"] = "missing"
    /\ run.pc = "returned"

C6_OutcomeIndependentOfAudit ==
    /\ shadow.pc = run.pc
    /\ shadow.status = run.status
    /\ shadow.calls = run.calls
    /\ shadow.result.success = run.result.success
    /\ shadow.result.errors = run.result.errors
    /\ shadow.result.warnings = run.result.warnings
    /\ shadow.result.output_files = run.result.output_files

\* C6 witness: an audited run failed at validation and its audit record could
\* not be saved
C6_Witness ==
    /\ agents["audit"]
    /\ run.pc = "returned"
    /\ run.status["validation"] = "failed"
    /\ run.result.errors # <<>>
    /\ audit.sessions_started = 1
    /\ audit.saved = <<>>

\* C7: with an audit agent, on every path by which process_file returns, each
\* step recorded with start_step has been closed with status completed or
\* failed: no step of a saved or still open audit record is left "started".
C7_EveryStepClosed ==
    (agents["audit"] /\ run.pc = "returned") =>
        /\ \A i \in 1..Len(audit.saved) :
              \A k \in 1..Len(audit.saved[i].processing_steps) :
                  audit.saved[i].processing_steps[k].status \in {"completed", "failed"}
        /\ \A sid \in DOMAIN audit.current_sessions :
              \A k \in 1..Len(audit.current_sessions[sid].processing_steps) :
                  audit.current_sessions[sid].processing_steps[k].status
                      \in {"completed", "failed"}

\* C8: detect_statement_type returns balance_sheet, profit_loss or
\* trial_balance; with bs the count of Asset/Liability/Equity records, is the
\* count of Revenue/Expense records and total the count of records, it is
\* balance_sheet iff bs > is and bs >= 0.6 * total, otherwise profit_loss iff
\* is > bs and is >= 0.5 * total, otherwise trial_balance.
C8_TemplateSelection ==
    call = "detect_statement_type" =>
        LET total == Len(records)
            bs == Cardinality({i \in 1..total :
                      records[i].account_type \in {"Asset", "Liability", "Equity"}})
            is == Cardinality({i \in 1..total :
                      records[i].account_type \in {"Revenue", "Expense"}})
            balance == bs > is /\ 10 * bs >= 6 * total
            income  == is > bs /\ 10 * is >= 5 * total
        IN  /\ template_type \in {"balance_sheet.md", "profit_loss.md", "trial_balance.md"}
            /\ template_type = "balance_sheet.md" <=> balance
            /\ template_type = "profit_loss.md" <=> (~balance /\ income)
            /\ template_type = "trial_balance.md" <=> (~balance /\ ~income)

\* C8 witness: three balance-sheet records out of five, exactly 60%, with two
\* income-statement records, selected balance_sheet
C8_Witness ==
    /\ call = "detect_statement_type"
    /\ Len(records) = 5
    /\ CountTypes(records, {"Asset", "Liability", "Equity"}) = 3
    /\ CountTypes(records, {"Revenue", "Expense"}) = 2
    /\ template_type = "balance_sheet.md"

\* C9: every record normalize_data produces has debit >= 0 and credit >= 0,
\* also when a dedicated debit or credit column holds a negative or
\* parenthesized value.
C9_NonNegativeAmounts ==
    (call = "normalize_data" /\ ~normalize_raised) =>
        \A i \in 1..Len(records) :
            ~IsNeg(records[i].debit) /\ ~IsNeg(records[i].credit)

\* C10: normalize_data emits one record per input row, in row order, and does
\* not fail: it returns as many records as the table has rows, the i-th
\* carrying the account name of the i-th row.
C10_OneRecordPerRow ==
    call = "normalize_data" =>
        /\ ~normalize_raised
        /\ Len(records) = Len(df.rows)
        /\ \A i \in 1..Len(records) :
              records[i].account_name
                  = (IF df.rows[i][1].isna THEN "" ELSE Strip(df.rows[i][1].text))

\* C11 (as stated): for a row whose debit and credit are both 0 and for
\* which an amount column is present, the parsed amount is stored as
\* original_amount; with a type column, credit = |amount| when the type value
\* contains "credit" or "cr" and debit = |amount| in every other case, a blank
\* type value included; without a type column a non-negative amount goes to
\* debit and a negative one to credit as its absolute value.
C11_TypeColumnDecides ==
    (call = "normalize_data" /\ ~normalize_raised) =>
        \A i \in 1..Len(records) :
            LET cols == normalize_column_names(df.columns)
                row == df.rows[i]
                amount == clean_amount_value(Get(cols, row, "amount"))
                says_credit == /\ ~Get(cols, row, "type").isna
                               /\ \/ Contains(Lower(Get(cols, row, "type").text), "credit")
                                  \/ Contains(Lower(Get(cols, row, "type").text), "cr")
            IN  (/\ HasColumn(cols, "amount")
                 /\ AmountColumn(cols, row, "debit") = Zero
                 /\ AmountColumn(cols, row, "credit") = Zero) =>
                    /\ records[i].original_amount = <<amount>>
                    /\ IF HasColumn(cols, "type")
                       THEN IF says_credit
                            THEN records[i].credit = Abs(amount) /\ records[i].debit = Zero
                            ELSE records[i].debit = Abs(amount) /\ records[i].credit = Zero
                       ELSE IF ~IsNeg(amount)
                            THEN records[i].debit = amount /\ records[i].credit = Zero
                            ELSE records[i].credit = Abs(amount) /\ records[i].debit = Zero

\* C11 (amended): as above, except that the type column decides only when its
\* value is present; a missing (NaN) type value is handled like a missing
\* type column, by the sign of the amount.  A present type value that does
\* not contain "credit" or "cr", the empty text included, sends |amount| to
\* debit.
C11_PresentTypeDecides ==
    (call = "normalize_data" /\ ~normalize_raised) =>
        \A i \in 1..Len(records) :
            LET cols == normalize_column_names(df.columns)
                row == df.rows[i]
                amount == clean_amount_value(Get(cols, row, "amount"))
                typed == HasColumn(cols, "type") /\ ~Get(cols, row, "type").isna
                says_credit == \/ Contains(Lower(Get(cols, row, "type").text), "credit")
                               \/ Contains(Lower(Get(cols, row, "type").text), "cr")
            IN  (/\ HasColumn(cols, "amount")
                 /\ AmountColumn(cols, row, "debit") = Zero
                 /\ AmountColumn(cols, row, "credit") = Zero) =>
                    /\ records[i].original_amount = <<amount>>
                    /\ IF typed
                       THEN IF says_credit
                            THEN records[i].credit = Abs(amount) /\ records[i].debit = Zero
                            ELSE records[i].debit = Abs(amount) /\ records[i].credit = Zero
                       ELSE IF ~IsNeg(amount)
                            THEN records[i].debit = amount /\ records[i].credit = Zero
                            ELSE records[i].credit = Abs(amount) /\ records[i].debit = Zero

\* C11 witness: a table with a type column was normalized in which a negative
\* amount met a missing type value and went to credit, and another negative
\* amount met the type value "Debit" and went to debit
C11_Witness ==
    /\ call = "normalize_data" /\ ~normalize_raised
    /\ df.columns = <<"Name", "Amount", "Type">>
    /\ Len(records) = 2
    /\ df.rows[1][2] = Txt("(500)") /\ df.rows[1][3] = NaN
    /\ records[1].credit = M(500000) /\ records[1].debit = Zero
    /\ records[1].original_amount = <<Neg(M(500000))>>
    /\ df.rows[2][2] = Txt("(500)") /\ df.rows[2][3] = Txt("Debit")
    /\ records[2].debit = M(500000) /\ records[2].credit = Zero

\* C12: scenario A, the rows (Cash, debit 1000, credit 0) and (Common Stock,
\* debit 0, credit 1000), normalizes to 2 records classified Asset and
\* Equity, validates with balance_difference = 0 and is_valid true, and the
\* template selector chooses the balance sheet.
C12_ScenarioA ==
    (/\ df.columns = <<"account", "debit", "credit">>
     /\ df.rows = << <<Txt("Cash"), Txt("1000"), Txt("0")>>,
                     <<Txt("Common Stock"), Txt("0"), Txt("1000")>> >>
     /\ call = "detect_statement_type") =>
        /\ ~normalize_raised
        /\ Len(records) = 2
        /\ records[1].account_type = "Asset"
        /\ records[2].account_type = "Equity"
        /\ validation_result.balance_difference = Zero
        /\ validation_result.is_valid
        /\ template_type = "balance_sheet.md"

\* C13: scenario C, a table without rows, normalizes to an empty record
\* list; validating that list returns records_processed = 0,
\* balance_difference = 0 and is_valid true; and the template selector
\* returns the trial balance for zero records.
C13_ScenarioC ==
    df.rows = <<>> =>
        /\ call \in {"normalize_data", "validate_records", "detect_statement_type"} =>
              ~normalize_raised /\ records = <<>>
        /\ call \in {"validate_records", "detect_statement_type"} =>
              /\ validation_result.records_processed = 0
              /\ validation_result.balance_difference = Zero
              /\ validation_result.is_valid
              /\ validation_result.errors = <<>>
        /\ call = "detect_statement_type" => template_type = "trial_balance.md"

\* C13 witness: the three calls were made on a table with headers and no rows
C13_Witness ==
    /\ df.columns = <<"account", "debit", "credit">> /\ df.rows = <<>>
    /\ call = "detect_statement_type"
    /\ records = <<>>
    /\ validation_result.records_processed = 0 /\ validation_result.is_valid
    /\ template_type = "trial_balance.md"

\* C14 (as stated): an empty input table is not fatal: when the extracted
\* table has no rows, the validation stage (its agent being there) and the
\* stages after it do not fail the run because of it.
C14_EmptyTableNonFatal ==
    (/\ run.extraction_result.success /\ run.extraction_result.has_data
     /\ run.extraction_result.data.rows = <<>>
     /\ agents.validation
     /\ run.status["validation"] # "pending") =>
        /\ run.status["validation"] = "completed"
        /\ run.result.errors = <<>>

\* C14 (amended): an empty extracted table is reported as a failure of the
\* run, not raised: process_data returns success = false with the one error
\* "Dataset is empty" and no records, the validation stage fails, the run
\* returns success = false carrying that error, no later stage is entered
\* and no exception is met.
C14_EmptyTableFailsRun ==
    (/\ run.extraction_result.success /\ run.extraction_result.has_data
     /\ run.extraction_result.data.rows = <<>>
     /\ agents.validation
     /\ run.status["validation"] # "pending") =>
        /\ ~run.validation.success
        /\ run.validation.normalized_records = <<>>
        /\ run.validation.errors = <<"Dataset is empty">>
        /\ run.status["validation"] = "failed"
        /\ run.pc = "returned"
        /\ ~run.result.success
        /\ run.result.errors = <<"Dataset is empty">>
        /\ run.status["template"] = "pending" /\ run.status["output"] = "pending"
        /\ ~run.fault

\* C14 witness: a run whose ingestion returned a table with headers and no
\* rows returned at the validation stage with the error "Dataset is empty"
C14_Witness ==
    /\ run.extraction_result.success
    /\ run.extraction_result.data = BlankTable
    /\ run.calls = <<"scan_file", "process_file", "process_data">>
    /\ run.status["validation"] = "failed"
    /\ run.pc = "returned"
    /\ run.result.errors = <<"Dataset is empty">>

\* C15: for every sequence of headers, normalize_column_names maps at most
\* one header to each canonical target: no two distinct headers are mapped to
\* the same canonical name.
C15_OneHeaderPerTarget ==
    call = "normalize_data" =>
        \A i, j \in 1..Len(df.columns) :
            (/\ df.columns[i] # df.columns[j]
             /\ ColumnMapping(df.columns)[i] # "") =>
                ColumnMapping(df.columns)[i] # ColumnMapping(df.columns)[j]

\* C16: categorize_account tests the categories in the order assets,
\* liabilities, equity, revenue, expenses and returns the type of the first
\* one a keyword of which is a substring of the lower-cased name, so a name
\* matching two categories resolves to the earlier ("Loan Receivable" is
\* Asset / assets); an empty name gives (Unknown, Other) and a name matching
\* no keyword gives (Unknown, other).
C16_FirstCategoryWins ==
    (call = "normalize_data" /\ ~normalize_raised) =>
        \A i \in 1..Len(records) :
            LET name  == records[i].account_name
                order == <<"assets", "liabilities", "equity", "revenue", "expenses">>
                types == <<"Asset", "Liability", "Equity", "Revenue", "Expense">>
                match(k) == \E n \in 1..Len(ACCOUNT_CATEGORIES[k].keywords) :
                               Contains(Lower(name), ACCOUNT_CATEGORIES[k].keywords[n])
            IN  /\ \A k \in 1..5 : ACCOUNT_CATEGORIES[k].category = order[k]
                /\ name = "" =>
                      records[i].account_type = "Unknown" /\ records[i].category = "Other"
                /\ (name # "" /\ \A k \in 1..5 : ~match(k)) =>
                      records[i].account_type = "Unknown" /\ records[i].category = "other"
                /\ \A k \in 1..5 :
                      (name # "" /\ match(k) /\ \A j \in 1..(k - 1) : ~match(j)) =>
                          records[i].account_type = types[k] /\ records[i].category = order[k]
                /\ name = "Loan Receivable" =>
                      records[i].account_type = "Asset" /\ records[i].category = "assets"

\* C16 witness: a name matching keywords of assets and of liabilities, a name
\* matching none and an empty name were categorized
C16_Witness ==
    /\ call = "normalize_data" /\ Len(records) = 2
    /\ records[1].account_name = "Loan Receivable"
    /\ records[1].account_type = "Asset" /\ records[1].category = "assets"
    /\ records[2].account_name = "" /\ records[2].category = "Other"

\* C17: clean_amount_value never fails: for a missing cell, an empty text,
\* "nan" / "null" / "none" in any case, and any other text it returns a
\* number, which is 0 whenever the text cannot be parsed; "$1,234.56" gives
\* 1234.56, "(500)" gives -500, "" and "abc" give 0 and "1,234" gives 1234.
C17_CleanAmountTotal ==
    call = "normalize_data" =>
        /\ ~normalize_raised
        /\ Len(records) = Len(df.rows)
        /\ \A i \in 1..Len(records) :
              LET cell == df.rows[i][1]
                  got  == records[i].original_amount
              IN  /\ Len(got) = 1
                  /\ got[1].hi \in Int /\ got[1].lo \in 0..(Base - 1)
                  /\ cell = Txt("$1,234.56") => got[1] = M(1234560)
                  /\ cell = Txt("(500)") => got[1] = Neg(M(500000))
                  /\ cell = Txt("1,234") => got[1] = M(1234000)
                  /\ cell = Txt("1,234,567.8") => got[1] = Amt(1, 234567800)
                  /\ cell = Txt("-200") => got[1] = Neg(M(200000))
                  /\ cell \in {NaN, Txt(""), Txt("abc"), Txt(" NaN "), Txt("NULL"), Txt("None"),
                               Txt("1.2.3"), Txt("--5"), Txt("(5")} => got[1] = Zero

\* C17 witness: a text with a currency sign and separators and a text
\* without any digit were cleaned to 1234.56 and to 0
C17_Witness ==
    /\ call = "normalize_data" /\ ~normalize_raised
    /\ df.rows = << <<Txt("$1,234.56")>>, <<Txt("abc")>> >>
    /\ records[1].original_amount = <<M(1234560)>>
    /\ records[2].original_amount = <<Zero>>

\* C18: mapping template data for the income statement never divides by
\* zero: whenever total_revenue = 0 the gross, operating and net margins are
\* all 0, and otherwise each margin is its profit divided by total_revenue,
\* times 100.
C18_Margins ==
    (call = "map_data_to_template" /\ template_type = "profit_loss.md") =>
        LET t == template_data.totals
            is(margin, profit) ==
                /\ margin.den > 0
                /\ margin.num * Plain(t.total_revenue) = 100 * Plain(profit) * margin.den
        IN  IF t.total_revenue = Zero
            THEN /\ t.gross_margin = ZeroFraction
                 /\ t.operating_margin = ZeroFraction
                 /\ t.net_margin = ZeroFraction
            ELSE /\ is(t.gross_margin, t.gross_profit)
                 /\ is(t.operating_margin, t.operating_income)
                 /\ is(t.net_margin, t.net_income)

\* C19: in validate_records the not-balanced condition is the only source of
\* an error: empty or too short account names, records without amounts,
\* repeated names and amounts above the ceiling add warnings only, so errors
\* is non-empty exactly when |total debits - total credits| exceeds the
\* tolerance, however many warnings there are.
C19_OnlyImbalanceIsError ==
    call = "validate_records" =>
        LET unbalanced == Less(Tolerance, Abs(Sub(TotalDebits(records), TotalCredits(records))))
            flagged(tag) == \E k \in 1..Len(validation_result.warnings) :
                               validation_result.warnings[k] = tag
            ceiling == Amt(999, 999990000)
        IN  /\ validation_result.errors # <<>> <=> unbalanced
            /\ validation_result.errors \in {<<>>, <<"not_balanced">>}
            /\ validation_result.is_valid <=> ~unbalanced
            /\ flagged("empty_accounts") <=>
                  \E i \in 1..Len(records) : Len(records[i].account_name) < 2
            /\ flagged("zero_amounts") <=>
                  \E i \in 1..Len(records) :
                      /\ records[i].debit = Zero /\ records[i].credit = Zero
                      /\ records[i].balance = Zero
            /\ flagged("duplicates") <=>
                  \E i, j \in 1..Len(records) :
                      /\ i # j /\ records[i].account_name # ""
                      /\ records[i].account_name = records[j].account_name
            /\ flagged("large_amount") <=>
                  \E i \in 1..Len(records) :
                      Less(ceiling, records[i].debit) \/ Less(ceiling, records[i].credit)

\* C19 witness: a balanced list with two amounts above the ceiling and a
\* record without a name and without amounts was validated: four warnings,
\* no error
C19_Witness ==
    /\ call = "validate_records"
    /\ records = << MakeRecord("Vault", Amt(1000, 0), Zero),
                    MakeRecord("Capital", Zero, Amt(1000, 0)),
                    MakeRecord("", Zero, Zero) >>
    /\ Len(validation_result.warnings) = 4
    /\ validation_result.errors = <<>>
    /\ validation_result.is_valid

\* C20: validation warnings never block the pipeline: when the validator
\* produced warnings and the data balances, the validation stage completes
\* with the validator's warnings attached to the result's warnings and none
\* of them among its errors, the next block of process_file can always run
\* until the run has returned, and the run returns success = true with
\* template processing and output generation completed unless a later
\* collaborator is missing, reports failure or raises.
C20_WarningsDoNotBlock ==
    LET noted == run.validation.validation_result.warnings
        later_failure ==
            \E stage \in {"template", "output"} :
                run.status[stage] \in {"failed", "missing", "raised"}
    IN  (/\ run.validation.has_result
         /\ run.validation.validation_result.is_valid
         /\ noted # <<>>) =>
            /\ run.status["validation"] = "completed"
            /\ run.pc \in {"template", "output", "returned"}
            /\ run.pc # "returned" => ENABLED Next
            /\ \E k \in 0..(Len(run.result.warnings) - Len(noted)) :
                  SubSeq(run.result.warnings, k + 1, k + Len(noted)) = noted
            /\ \A i \in 1..Len(run.result.errors) : \A k \in 1..Len(noted) :
                  run.result.errors[i] # noted[k]
            /\ run.pc = "returned" =>
                  /\ run.result.success <=> ~later_failure
                  /\ run.result.success =>
                        /\ run.status["template"] = "completed"
                        /\ run.status["output"] = "completed"
                        /\ run.result.output_files # <<>>

\* C20 witness: a balanced ledger naming one account twice went through all
\* stages: the run succeeded and carries the duplicate-names warning
C20_Witness ==
    /\ run.extraction_result.data = RepeatedNameTable
    /\ run.validation.validation_result.is_valid
    /\ run.validation.validation_result.warnings = <<"duplicates">>
    /\ run.pc = "returned" /\ run.result.success
    /\ run.status["template"] = "completed" /\ run.status["output"] = "completed"
    /\ \E k \in 1..Len(run.result.warnings) : run.result.warnings[k] = "duplicates"


\* C21: batch_process returns one result per file, in the order of the files,
\* and each result is the one process_file gives for that file as the only
\* call on the workflow (up to the value of the session id), so no run, failed
\* or not, changes the result of an earlier or of a later run
C21_BatchRunsIndependent ==
    /\ Len(batch.results) <= Len(batch.file_paths)
    /\ batch.pc = "returned" => Len(batch.results) = Len(batch.file_paths)
    /\ \A i \in 1..Len(batch.results) :
          /\ batch.alone[i].file = batch.file_paths[i]
          /\ SessionBlind(batch.results[i]) = SessionBlind(batch.alone[i].result)

\* a returned batch of two files whose first run ended in the exception
\* handler with errors and whose second run succeeded
C21_Witness ==
    /\ batch.pc = "returned"
    /\ Len(batch.results) = 2
    /\ ~batch.results[1].success /\ batch.results[1].errors = <<"Workflow failed">>
    /\ batch.results[1].session_id # NoSession
    /\ batch.results[2].success /\ batch.results[2].errors = <<>>


C24_Order ==
    << [kw |-> {"cash", "bank"}, to |-> {"cash"}],
       [kw |-> {"receivable"}, to |-> {"accounts_receivable"}],
       [kw |-> {"inventory"}, to |-> {"inventory"}],
       [kw |-> {"payable"}, to |-> {"accounts_payable"}],
       [kw |-> {"revenue", "sales"}, to |-> {"service_revenue", "sales_revenue"}],
       [kw |-> {"expense", "cost"},
        to |-> {"salaries", "rent", "utilities", "cogs", "other_expenses"}] >>

\* the keys the first rule matching the lower-cased name can add to, {} when
\* no rule matches
C24_FirstMatch(name) ==
    LET matching == {k \in 1..Len(C24_Order) :
                        \E kw \in C24_Order[k].kw : Contains(Lower(name), kw)}
    IN  IF matching = {} THEN {}
        ELSE C24_Order[CHOOSE k \in matching : \A j \in matching : k <= j].to

\* C24: in map_data_to_template a record adds to at most one key, one of
\* those of the first rule its lower-cased name matches in the order cash/bank,
\* receivable, inventory, payable, revenue/sales, expense/cost; a record that
\* matches no rule adds to no key, and every record, matched or not, is in
\* total_debits, total_credits and the accounts list
C24_FirstMatchingBucket ==
    (call = "map_data_to_template") =>
        /\ \A i \in 1..Len(records) :
              LET alone == map_data_to_template(<<records[i]>>, template_type)
              IN  /\ Cardinality(alone.keys) <= 1
                  /\ alone.keys \subseteq C24_FirstMatch(records[i].account_name)
                  /\ C24_FirstMatch(records[i].account_name) # {} => alone.keys # {}
                  /\ alone.keys \subseteq template_data.keys
                  /\ DOMAIN alone.buckets = alone.keys
        /\ template_data.keys \subseteq
               UNION {C24_FirstMatch(records[i].account_name) : i \in 1..Len(records)}
        /\ template_data.total_debits = TotalDebits(records)
        /\ template_data.total_credits = TotalCredits(records)
        /\ Len(template_data.accounts) = Len(records)
        /\ \A i \in 1..Len(records) :
              /\ template_data.accounts[i].name = records[i].account_name
              /\ template_data.accounts[i].debit = records[i].debit
              /\ template_data.accounts[i].credit = records[i].credit

\* a mapped ledger of "Cost of Sales", which matches the sales rule before
\* the cost rule, and "Retained Earnings", which matches no rule and is in
\* the totals
C24_Witness ==
    /\ call = "map_data_to_template"
    /\ Len(records) = 2
    /\ records[1].account_name = "Cost of Sales"
    /\ records[2].account_name = "Retained Earnings"
    /\ template_data.keys = {"sales_revenue"}
    /\ template_data.total_debits = M(80 * Milli)
    /\ template_data.total_credits = M(500 * Milli)
    /\ Len(template_data.accounts) = 2


\* C25: a row that after the debit, credit and amount steps has debit = 0
\* and credit = 0 and a balance other than 0 gets debit = balance when the
\* balance is not negative and credit = |balance| when it is negative; a
\* row with a debit or credit other than 0 keeps both whatever its balance
C25_BalanceOnlyRows ==
    (call = "normalize_data" /\ ~normalize_raised) =>
        \A i \in 1..Len(records) :
            LET cols == normalize_column_names(df.columns)
                before == SingleAmount(cols, df.rows[i], DedicatedColumns(cols, df.rows[i]))
            IN  /\ records[i].balance = before.balance
                /\ IF before.debit = Zero /\ before.credit = Zero /\ before.balance # Zero
                   THEN IF IsNeg(before.balance)
                        THEN records[i].debit = Zero /\ records[i].credit = Abs(before.balance)
                        ELSE records[i].debit = before.balance /\ records[i].credit = Zero
                   ELSE records[i].debit = before.debit /\ records[i].credit = before.credit

\* two normalized rows with the balance (500): one with a debit of 200 that
\* kept it, one without debit or credit that got a credit of 500
C25_Witness ==
    /\ call = "normalize_data"
    /\ df.columns = <<"Account", "Debit", "Credit", "Balance">>
    /\ Len(records) = 2
    /\ records[1].balance = Neg(M(500 * Milli)) /\ records[2].balance = Neg(M(500 * Milli))
    /\ records[1].debit = M(200 * Milli) /\ records[1].credit = Zero
    /\ records[2].debit = Zero /\ records[2].credit = M(500 * Milli)


\* the keyword rules in the order C26 gives them, each with its target
C26_Rules ==
    << [kw |-> {"account"}, to |-> "account_name"],
       [kw |-> {"name"}, to |-> "account_name"],
       [kw |-> {"debit"}, to |-> "debit"],
       [kw |-> {"credit"}, to |-> "credit"],
       [kw |-> {"balance"}, to |-> "balance"],
       [kw |-> {"amount", "value", "total"}, to |-> "amount"],
       [kw |-> {"type"}, to |-> "type"],
       [kw |-> {"description"}, to |-> "description"] >>

\* rule k applies to a header: a keyword of the rule is in it, the name rule
\* only without "account", and account_name and amount only while unclaimed
C26_Applies(k, header, claimed) ==
    /\ \E kw \in C26_Rules[k].kw : Contains(Lower(header), kw)
    /\ k = 2 => ~Contains(Lower(header), "account")
    /\ C26_Rules[k].to \in {"account_name", "amount"} => C26_Rules[k].to \notin claimed

\* the name C26 gives a header, claimed being the targets already given
C26_Renamed(header, claimed) ==
    LET applicable == {k \in 1..Len(C26_Rules) : C26_Applies(k, header, claimed)}
    IN  IF applicable = {} THEN header
        ELSE C26_Rules[CHOOSE k \in applicable : \A j \in applicable : k <= j].to

\* C26: normalize_column_names gives each header the target of the first rule
\* that applies to it in the order account, name (without "account"), debit,
\* credit, balance, amount / value / total, type, description, where the
\* account_name and amount rules apply only while their target is unclaimed;
\* a header no rule applies to keeps its name
C26_FirstApplicableRule ==
    (call = "normalize_data") =>
        \A i \in 1..Len(df.columns) :
            normalize_column_names(df.columns)[i] =
                C26_Renamed(df.columns[i],
                            {ColumnMapping(df.columns)[j] : j \in 1..(i - 1)} \ {""})

\* a normalized table with the headers "Amount" and "Total Debits": the
\* second, which contains "total" and "debit", was read as the debit column
C26_Witness ==
    /\ call = "normalize_data" /\ ~normalize_raised
    /\ df.columns = <<"Amount", "Total Debits">>
    /\ normalize_column_names(df.columns) = <<"amount", "debit">>
    /\ Len(records) = 1
    /\ records[1].debit = M(20 * Milli)


\* C27: every session a run opened with start_session has been closed by
\* end_session when process_file returns, on every return path, so between
\* and after the runs of a batch the audit agent's current_sessions holds no
\* session, and a run that opened one is not left in it.
C27_NoSessionLeftOpen ==
    /\ DOMAIN audit.current_sessions = {}
    /\ (run.pc = "returned" /\ run.session_id # NoSession /\ agents["audit"]) =>
           ~IsOpen(audit, run.session_id)


\* C28: when process_file returns success = false the result's errors are
\* not empty and its output_files are empty; when it returns success = true
\* the errors are empty and each of the five stages was completed
C28_ResultConsistent ==
    (run.pc = "returned") =>
        IF run.result.success
        THEN /\ run.result.errors = <<>>
             /\ \A i \in 1..Len(Stages) : run.status[Stages[i]] = "completed"
        ELSE /\ run.result.errors # <<>>
             /\ run.result.output_files = <<>>

\* a run that failed in the exception handler after four completed stages,
\* with the handler's message as its only error and no output file
C28_Witness ==
    /\ run.pc = "returned"
    /\ ~run.result.success
    /\ run.status["template"] = "completed" /\ run.status["output"] = "raised"
    /\ run.result.errors = <<"Workflow failed">>
    /\ run.result.output_files = <<>>


\* C29: for one record list the template data and the validation result
\* agree: under every template type map_data_to_template gives the
\* total_debits, total_credits and balance_difference validate_records gives,
\* and its balance_check is the validator's is_valid
C29_MapperAgreesWithValidator ==
    (call = "generate_statement") =>
        /\ template_data.total_debits = validation_result.total_debits
        /\ template_data.total_credits = validation_result.total_credits
        /\ template_data.balance_difference = validation_result.balance_difference
        /\ template_data.balance_check = validation_result.is_valid
        /\ \A template \in DefaultTemplates :
              /\ map_data_to_template(records, template).balance_difference
                     = validation_result.balance_difference
              /\ map_data_to_template(records, template).balance_check
                     = validation_result.is_valid

\* a statement generated for a ledger whose debits exceed its credits by
\* exactly 0.01: valid for the validator and balanced for the mapper
C29_Witness ==
    /\ call = "generate_statement"
    /\ Len(records) = 2
    /\ template_data.balance_difference = M(Milli \div 100)
    /\ template_data.balance_check
    /\ validation_result.is_valid


\* the keys of the balance sheet that C30 says no record adds to
C30_UnsetKeys ==
    {"prepaid_expenses", "ppe", "investments", "intangible_assets", "accrued_expenses",
     "short_term_debt", "long_term_debt", "deferred_tax", "share_capital",
     "retained_earnings"}

\* C30: for the balance sheet template no record adds to the prepaid, ppe,
\* investments, intangibles, accrued, short-term debt, long-term debt,
\* deferred tax, share capital or retained earnings keys, so the non-current
\* assets, the non-current liabilities and the equity total 0, total_assets
\* is cash + accounts_receivable + inventory and total_liab_equity is
\* accounts_payable
C30_BalanceSheetTotals ==
    (call = "map_data_to_template" /\ template_type = "balance_sheet.md") =>
        /\ template_data.keys \cap C30_UnsetKeys = {}
        /\ template_data.totals.total_non_current_assets = Zero
        /\ template_data.totals.total_non_current_liabilities = Zero
        /\ template_data.totals.total_equity = Zero
        /\ template_data.totals.total_assets =
               Add(Add(DataGet(template_data.buckets, "cash"),
                       DataGet(template_data.buckets, "accounts_receivable")),
                   DataGet(template_data.buckets, "inventory"))
        /\ template_data.totals.total_liab_equity =
               DataGet(template_data.buckets, "accounts_payable")

\* a balance sheet mapped from "Prepaid Expenses" 50 and "Retained Earnings"
\* 500: the first went to other_expenses, the second to no key, and the
\* assets, liabilities and equity all total 0
C30_Witness ==
    /\ call = "map_data_to_template" /\ template_type = "balance_sheet.md"
    /\ Len(records) = 2
    /\ records[1].account_name = "Prepaid Expenses"
    /\ records[2].account_name = "Retained Earnings"
    /\ template_data.keys = {"other_expenses"}
    /\ template_data.totals.total_assets = Zero
    /\ template_data.totals.total_equity = Zero
    /\ template_data.totals.total_liab_equity = Zero

=============================================================================
